---- MODULE Spec2Model ----
(***************************************************************************)
(* The srilang syntax tree (srilang/ast/nodes.py) and its constant-folding *)
(* driver (srilang/ast/folding.py).                                        *)
(*                                                                         *)
(* Nodes live in a heap: a sequence of records indexed by object           *)
(* reference (Python object identity).  A reference is NOT a node_id.      *)
(* Plain values are tagged with their Python type.  Decimal values are     *)
(* integers scaled by DecimalScale.                                        *)
(***************************************************************************)
EXTENDS Integers, Sequences, FiniteSets, TLC

\* Python's None: no reference, no offset, no id
None == -1

\* ------------------------------------------------------------------ bounds
\* number of times the folding driver is run on one tree
MaxFolds == 2
\* tree-mutator specification: number of replace_in_tree calls, and number of
\* nodes made beforehand by from_node or by a constructor
MaxCalls == 2
MaxMade == 1
\* fractional digits of a decimal literal
DecimalPlaces == 2
\* bit widths standing for the 127 and 256 bits of the builtin limits
Int128Width == 15
UInt256Width == 29
\* significant digits of the decimal arithmetic context, standing for the 28
\* digits of Python's default context next to 10 fractional digits
ContextPrec == 6
\* evaluation specification: the integer operands are -MaxOperand..MaxOperand
MaxOperand == 7

\* an assignment statement: v is computed once, then Op uses its value
Bind(v, Op(_)) == CHOOSE y \in {Op(x) : x \in {v}} : TRUE

\* ------------------------------------------------------------ field values
NoneF == [k |-> "none", r |-> 0, s |-> <<>>, ty |-> "NoneType", n |-> 0, str |-> ""]
NodeF(r) == [k |-> "node", r |-> r, s |-> <<>>, ty |-> "", n |-> 0, str |-> ""]
ListF(s) == [k |-> "list", r |-> 0, s |-> s, ty |-> "", n |-> 0, str |-> ""]
IntV(n) == [k |-> "val", r |-> 0, s |-> <<>>, ty |-> "int", n |-> n, str |-> ""]
DecV(n) == [k |-> "val", r |-> 0, s |-> <<>>, ty |-> "Decimal", n |-> n, str |-> ""]
BoolV(b) == [k |-> "val", r |-> 0, s |-> <<>>, ty |-> "bool", n |-> IF b THEN 1 ELSE 0, str |-> ""]
StrV(str) == [k |-> "val", r |-> 0, s |-> <<>>, ty |-> "str", n |-> 0, str |-> str]

\* decimal literals carry 10 fractional digits (decimal.Decimal("1.0000000000"));
\* the model keeps DecimalPlaces of them so that products fit the checker's integers
DecimalScale == 10 ^ DecimalPlaces

IsNumeric(v) == v.k = "val" /\ v.ty \in {"int", "bool", "Decimal"}
Scaled(v) == IF v.ty = "Decimal" THEN v.n ELSE v.n * DecimalScale

\* Python `==` between two plain values (int, bool and Decimal compare by number)
PyValEq(a, b) ==
    IF a.k = "none" \/ b.k = "none" THEN a.k = b.k
    ELSE IF IsNumeric(a) /\ IsNumeric(b) THEN Scaled(a) = Scaled(b)
    ELSE a.ty = b.ty /\ a.ty = "str" /\ a.str = b.str

\* ------------------------------------------------------------ node classes
OpClasses == {"Add", "Sub", "Mult", "Div", "Mod", "Pow", "USub", "Not", "And", "Or",
              "Eq", "NotEq", "Lt", "LtE", "Gt", "GtE", "In"}
ConstantClasses == {"Constant", "Num", "Int", "Decimal", "Hex", "Str", "Bytes", "NameConstant"}

\* the fields a class declares through __slots__ (its own and inherited ones),
\* without the base and source attributes of srilangNode
get_fields(cls) ==
    CASE cls = "Module" -> {"body", "name", "doc_string"}
      [] cls = "FunctionDef" -> {"body", "name", "doc_string", "args", "returns", "decorator_list", "pos"}
      [] cls \in ConstantClasses -> {"value"}
      [] cls \in {"List", "Tuple"} -> {"elts"}
      [] cls = "Dict" -> {"keys", "values"}
      [] cls = "Name" -> {"id"}
      [] cls \in {"Expr", "Return", "Index"} -> {"value"}
      [] cls = "UnaryOp" -> {"op", "operand"}
      [] cls \in {"BinOp", "Compare"} -> {"left", "op", "right"}
      [] cls = "BoolOp" -> {"op", "values"}
      [] cls = "Call" -> {"func", "args", "keywords", "keyword"}
      [] cls = "keyword" -> {"arg", "value"}
      [] cls = "Attribute" -> {"attr", "value"}
      [] cls = "Subscript" -> {"slice", "value"}
      [] cls = "Assign" -> {"target", "value"}
      [] cls = "AnnAssign" -> {"target", "annotation", "value", "simple"}
      [] cls = "AugAssign" -> {"op", "target", "value"}
      [] cls = "Raise" -> {"exc"}
      [] OTHER -> {}

\* isinstance(node, types) for a set of class names
IsInstance(cls, types) ==
    \/ cls \in types
    \/ "Constant" \in types /\ cls \in ConstantClasses
    \/ "Num" \in types /\ cls \in {"Int", "Decimal", "Hex"}

AllTypes == {"*"}
TypeMatch(cls, types) == types = AllTypes \/ IsInstance(cls, types)

\* ---------------------------------------------------------------- the heap
\* srilangNode.__init__ before any field is set: parent, depth, source offsets
\* (a missing source offset is taken from the parent)
NewNode(h, cls, node_id, parent, lineno, col_offset) ==
    [cls |-> cls,
     node_id |-> node_id,
     parent |-> parent,
     depth |-> IF parent = None THEN 0 ELSE h[parent].depth + 1,
     children |-> {},
     lineno |-> IF lineno = None /\ parent # None THEN h[parent].lineno ELSE lineno,
     col_offset |-> IF col_offset = None /\ parent # None THEN h[parent].col_offset ELSE col_offset,
     fields |-> [f \in get_fields(cls) |-> NoneF]]

SetField(h, n, name, val) ==
    IF name \in DOMAIN h[n].fields THEN [h EXCEPT ![n].fields[name] = val] ELSE h

\* the counter of the annotation pass: node ids are handed out in the order
\* the front end visits the nodes (a node before its children)
annotate_counter(h) == Len(h)

\* an ast_struct is [ast_type, lineno, col_offset, kw], kw a sequence of
\* [name, k, sub, subs, val] entries
D(ast_type, lineno, col_offset, kw) ==
    [ast_type |-> ast_type, lineno |-> lineno, col_offset |-> col_offset, kw |-> kw]
kN(name, sub) == [name |-> name, k |-> "node", sub |-> <<sub>>, val |-> NoneF]
kL(name, subs) == [name |-> name, k |-> "list", sub |-> subs, val |-> NoneF]
kV(name, val) == [name |-> name, k |-> "val", sub |-> <<>>, val |-> val]

RECURSIVE get_node(_, _, _)
RECURSIVE to_node_list(_, _, _, _)
RECURSIVE init_fields(_, _, _)

\* the classes nodes.py defines, as far as the model builds them
NodeClasses ==
    OpClasses \cup ConstantClasses
        \cup {"Module", "FunctionDef", "List", "Tuple", "Dict", "Name", "Expr", "Return", "Index",
              "UnaryOp", "BinOp", "Compare", "BoolOp", "Call", "keyword", "Attribute", "Subscript",
              "Assign", "AnnAssign", "AugAssign", "Raise"}

\* the fields of Python's AST that must be empty
_only_empty_fields(cls) == IF cls = "Raise" THEN {"cause"} ELSE {}

\* len() and the greatest ord() of the strings the inputs use
StrLen(str) == CASE str = "0x123" -> 5 [] str = "0x12" -> 4 [] str = "a" -> 1 [] str = "b" -> 1 [] OTHER -> 0
MaxOrd(str) == CASE str = "price \\u20ac" -> 8364 [] str = "" -> 0 [] OTHER -> 122

\* value = [_to_node(i, self) for i in value]
to_node_list(h, subs, self, acc) ==
    IF Len(subs) = 0 THEN [h |-> h, s |-> acc, exc |-> ""]
    ELSE LET r == get_node(h, Head(subs), self)
         IN IF r.exc # "" THEN [h |-> r.h, s |-> acc, exc |-> r.exc]
            ELSE to_node_list(r.h, Tail(subs), self, Append(acc, r.ref))

\* the loop over kwargs of srilangNode.__init__
init_fields(h, kw, self) ==
    IF Len(kw) = 0 THEN [h |-> h, exc |-> ""]
    ELSE LET e == Head(kw)
         IN IF e.name \notin get_fields(h[self].cls)
            THEN IF e.name \in _only_empty_fields(h[self].cls) /\ (IF e.k = "val" THEN e.val.k # "none" ELSE e.sub # <<>>)
                 THEN [h |-> h, exc |-> "SyntaxException"]
                 ELSE init_fields(h, Tail(kw), self)
            ELSE IF e.k = "node"
                 THEN LET r == get_node(h, e.sub[1], self)
                      IN IF r.exc # "" THEN [h |-> r.h, exc |-> r.exc]
                         ELSE init_fields(SetField(r.h, self, e.name, NodeF(r.ref)), Tail(kw), self)
            ELSE IF e.k = "list"
                 THEN LET r == to_node_list(h, e.sub, self, <<>>)
                      IN IF r.exc # "" THEN [h |-> r.h, exc |-> r.exc]
                         ELSE init_fields(SetField(r.h, self, e.name, ListF(r.s)), Tail(kw), self)
            ELSE init_fields(SetField(h, self, e.name, e.val), Tail(kw), self)

\* the entry of kwargs under a name, if there is one
Kwarg(kw, name) == SelectSeq(kw, LAMBDA e : e.name = name)

\* Compare.__init__ and Assign.__init__ before super().__init__: more than
\* one operator, comparator or target is refused
TooMany(st) ==
    \/ st.ast_type = "Compare" /\ \E e \in {Kwarg(st.kw, "ops"), Kwarg(st.kw, "comparators")} :
                                     e # <<>> /\ Len(e[1].sub) > 1
    \/ st.ast_type = "Assign" /\ \E e \in {Kwarg(st.kw, "targets")} : e # <<>> /\ Len(e[1].sub) > 1

\* kwargs["op"] = kwargs.pop("ops")[0] and the like: the entry leaves its
\* place and the renamed one goes to the end
Renamed(kw, from, to) ==
    IF Kwarg(kw, from) = <<>> THEN kw
    ELSE SelectSeq(kw, LAMBDA e : e.name # from) \o <<kN(to, Kwarg(kw, from)[1].sub[1])>>
Translated(st) ==
    IF st.ast_type = "Compare" THEN Renamed(Renamed(st.kw, "ops", "op"), "comparators", "right")
    ELSE IF st.ast_type = "Assign" THEN Renamed(st.kw, "targets", "target")
    ELSE st.kw

\* Hex.__init__ and Str.__init__ after super().__init__: an odd number of
\* digits, a character beyond 255
BadLiteral(h, self) ==
    \/ h[self].cls = "Hex" /\ StrLen(h[self].fields["value"].str) % 2 = 1
    \/ h[self].cls = "Str" /\ MaxOrd(h[self].fields["value"].str) >= 256

\* get_node / srilangNode.__init__: the node is created, its fields are
\* converted, and last it is added to the children of its parent; the
\* checks of Hex and Str follow. exc is the exception raised, "" for none
get_node(h, st, parent) ==
    IF st.ast_type \notin NodeClasses \/ TooMany(st)
    THEN [h |-> h, ref |-> None, exc |-> "SyntaxException"]
    ELSE LET self == Len(h) + 1
             h1 == Append(h, NewNode(h, st.ast_type, annotate_counter(h), parent, st.lineno, st.col_offset))
             r == init_fields(h1, Translated(st), self)
             h3 == IF parent = None THEN r.h
                   ELSE [r.h EXCEPT ![parent].children = @ \cup {self}]
         IN IF r.exc # "" THEN [h |-> r.h, ref |-> None, exc |-> r.exc]
            ELSE IF BadLiteral(h3, self) THEN [h |-> h3, ref |-> None, exc |-> "SyntaxException"]
            ELSE [h |-> h3, ref |-> self, exc |-> ""]

\* ----------------------------------------------------------- node equality
RECURSIVE NodeEq(_, _, _)
RECURSIVE SeqEq(_, _, _)

\* Python list equality, element by element
SeqEq(h, a, b) ==
    /\ Len(a) = Len(b)
    /\ \A i \in 1..Len(a) : a[i] = b[i] \/ NodeEq(h, a[i], b[i])

FieldEq(h, x, y) ==
    IF x.k = "node" /\ y.k = "node" THEN x.r = y.r \/ NodeEq(h, x.r, y.r)
    ELSE IF x.k = "list" /\ y.k = "list" THEN SeqEq(h, x.s, y.s)
    ELSE IF x.k \in {"node", "list"} \/ y.k \in {"node", "list"} THEN FALSE
    ELSE PyValEq(x, y)

\* srilangNode.__eq__: same class (other an instance of type(self)), same
\* node_id, and every declared field equal
NodeEq(h, a, b) ==
    /\ IsInstance(h[b].cls, {h[a].cls})
    /\ h[b].node_id = h[a].node_id
    /\ \A f \in DOMAIN h[a].fields :
          FieldEq(h, h[a].fields[f],
                  IF f \in DOMAIN h[b].fields THEN h[b].fields[f] ELSE NoneF)

\* type(value) of a field value
TypeOf(h, x) == IF x.k = "node" THEN h[x.r].cls ELSE IF x.k = "list" THEN "list" ELSE x.ty

RECURSIVE compare_nodes(_, _, _)

\* compare_nodes(left_node, right_node): the lists of a field are compared
\* through zip, that is up to the length of the shorter one
compare_nodes(h, left_node, right_node) ==
    /\ IsInstance(h[left_node].cls, {h[right_node].cls})
    /\ \A f \in DOMAIN h[left_node].fields :
          LET left_value == h[left_node].fields[f]
              right_value == IF f \in DOMAIN h[right_node].fields THEN h[right_node].fields[f] ELSE NoneF
          IN /\ TypeOf(h, left_value) = TypeOf(h, right_value)
             /\ IF left_value.k = "list"
                THEN \A i \in 1..Len(left_value.s) :
                        i <= Len(right_value.s) => compare_nodes(h, left_value.s[i], right_value.s[i])
                ELSE IF left_value.k = "node" THEN compare_nodes(h, left_value.r, right_value.r)
                ELSE PyValEq(left_value, right_value)

\* srilangNode.__hash__: ast_type, node_id and the source attributes
HashEq(h, a, b) ==
    /\ h[a].cls = h[b].cls
    /\ h[a].node_id = h[b].node_id
    /\ h[a].lineno = h[b].lineno
    /\ h[a].col_offset = h[b].col_offset

\* `x in list`: identity first, then __eq__
InSeq(h, x, s) == \E l \in {s} : \E i \in 1..Len(l) : l[i] = x \/ NodeEq(h, l[i], x)
\* the members of a set that a lookup of x finds: same hash, and identical or equal
Matches(h, x, S) == {y \in S : y = x \/ (HashEq(h, y, x) /\ NodeEq(h, y, x))}
InSet(h, x, S) == Matches(h, x, S) # {}
\* set.add(x): nothing happens when a member equal to x is there already
SetAdd(h, x, S) == IF InSet(h, x, S) THEN S ELSE S \cup {x}
Count(h, x, s) == Cardinality({i \in 1..Len(s) : s[i] = x \/ NodeEq(h, s[i], x)})

\* ---------------------------------------------------------------- traversal
Inf == 1000000
sortkey(key) == IF key = None THEN Inf ELSE key

\* the sort key of _sort_nodes, compared as Python compares tuples
KeyLess_idDescending(h, a, b) ==
    LET la == sortkey(h[a].lineno)
        lb == sortkey(h[b].lineno)
        ca == sortkey(h[a].col_offset)
        cb == sortkey(h[b].col_offset)
    IN \/ la < lb
       \/ la = lb /\ ca < cb
       \/ la = lb /\ ca = cb /\ h[a].node_id > h[b].node_id
KeyLess(h, a, b) ==
    LET la == sortkey(h[a].lineno)
        lb == sortkey(h[b].lineno)
        ca == sortkey(h[a].col_offset)
        cb == sortkey(h[b].col_offset)
    IN \/ la < lb
       \/ la = lb /\ ca < cb
       \/ la = lb /\ ca = cb /\ h[a].node_id < h[b].node_id

\* x is placed behind the last element of s whose key is not greater
InsertStable(h, x, s) ==
    Bind(s, LAMBDA l :
        LET p == CHOOSE i \in 0..Len(l) :
                    /\ i = 0 \/ ~KeyLess(h, x, l[i])
                    /\ \A j \in (i + 1)..Len(l) : KeyLess(h, x, l[j])
        IN SubSeq(l, 1, p) \o <<x>> \o SubSeq(l, p + 1, Len(l)))

RECURSIVE SortFrom(_, _, _)
SortFrom(h, s, acc) ==
    IF Len(s) = 0 THEN acc
    ELSE Bind(InsertStable(h, Head(s), acc), LAMBDA placed : SortFrom(h, Tail(s), placed))

\* sorted(node_iterable, key=...): a stable sort
_sort_nodes(h, s) == Bind(s, LAMBDA nodes : SortFrom(h, nodes, <<>>))

RECURSIVE SetToSeq(_)
SetToSeq(S) ==
    IF S = {} THEN <<>>
    ELSE Bind(CHOOSE x \in S : \A y \in S : x <= y, LAMBDA m : <<m>> \o SetToSeq(S \ {m}))

Reverse(s) == Bind(s, LAMBDA l : [i \in 1..Len(l) |-> l[Len(l) + 1 - i]])

\* srilangNode.get: getattr along a dotted path, None when a segment is absent
RECURSIVE Get(_, _, _)
Get(h, r, path) ==
    IF Len(path) = 0 THEN NodeF(r)
    ELSE LET v == IF Head(path) \in DOMAIN h[r].fields THEN h[r].fields[Head(path)] ELSE NoneF
         IN IF Len(path) = 1 THEN v
            ELSE IF v.k = "node" THEN Get(h, v.r, Tail(path))
            ELSE NoneF

\* filters is a set of <<path, expected value>> pairs; NoFilter is `None`
NoFilter == {}
_node_filter(h, r, filters) ==
    \A fl \in filters : FieldEq(h, Get(h, r, fl[1]), fl[2])

get_children(h, r, types, filters, reverse) ==
    LET sorted == _sort_nodes(h, SetToSeq(h[r].children))
        typed == SelectSeq(sorted, LAMBDA i : TypeMatch(h[i].cls, types))
        ordered == IF reverse THEN Reverse(typed) ELSE typed
    IN SelectSeq(ordered, LAMBDA i : _node_filter(h, i, filters))

RECURSIVE get_descendants(_, _, _, _, _, _)
RECURSIVE ExtendAll(_, _, _, _, _)
ExtendAll(h, kids, types, filters, acc) ==
    IF Len(kids) = 0 THEN acc
    ELSE ExtendAll(h, Tail(kids), types, filters,
                   acc \o get_descendants(h, Head(kids), types, filters, FALSE, FALSE))

get_descendants(h, r, types, filters, include_self, reverse) ==
    LET children == get_children(h, r, types, filters, FALSE)
        extended == Bind(get_children(h, r, AllTypes, NoFilter, FALSE),
                         LAMBDA kids : ExtendAll(h, kids, types, filters, children))
        withSelf == IF include_self /\ TypeMatch(h[r].cls, types) /\ _node_filter(h, r, filters)
                    THEN Append(extended, r) ELSE extended
        result == _sort_nodes(h, withSelf)
    IN IF reverse THEN Reverse(result) ELSE result

\* srilangNode.get_ancestor(node_type)
RECURSIVE get_ancestor(_, _, _)
get_ancestor(h, r, types) ==
    IF types = AllTypes \/ h[r].parent = None THEN h[r].parent
    ELSE IF IsInstance(h[h[r].parent].cls, types) THEN h[r].parent
    ELSE get_ancestor(h, h[r].parent, types)

\* ---------------------------------------------------------------- from_node
\* cls.from_node(node, field=value): a new node with the source offsets and
\* the node_id of `node`, no parent, depth 0, and the given field
from_node_fresh(h, cls, node, name, val) ==
    LET rec == NewNode(h, cls, Len(h) + 100, None, h[node].lineno, h[node].col_offset)
    IN Append(h, [rec EXCEPT !.fields = [f \in DOMAIN @ |-> IF f = name THEN val ELSE @[f]]])
from_node(h, cls, node, name, val) ==
    LET rec == NewNode(h, cls, h[node].node_id, None, h[node].lineno, h[node].col_offset)
    IN Append(h, [rec EXCEPT !.fields = [f \in DOMAIN @ |-> IF f = name THEN val ELSE @[f]]])

\* --------------------------------------------------------------- arithmetic
Abs(x) == IF x < 0 THEN -x ELSE x
\* Python floor division
PyFloorDiv(a, b) ==
    LET q == Abs(a) \div Abs(b)
        exact == q * Abs(b) = Abs(a)
    IN IF (a < 0) = (b < 0) \/ a = 0 THEN q
       ELSE IF exact THEN -q ELSE -q - 1
\* Decimal.quantize(Decimal("1.0000000000"), ROUND_DOWN) of the quotient a / b
QuantizeDown(a, b) ==
    LET q == Abs(a) \div Abs(b)
    IN IF (a < 0) = (b < 0) THEN q ELSE -q

Ok(cls, val) == [kind |-> "new", cls |-> cls, val |-> val, ref |-> None]
OkRef(ref) == [kind |-> "ref", cls |-> "", val |-> NoneF, ref |-> ref]
Raise(exc) == [kind |-> exc, cls |-> "", val |-> NoneF, ref |-> None]
UnfoldableNode == Raise("UnfoldableNode")
IsOk(res) == res.kind \in {"new", "ref"}

NumV(ty, n) == IF ty = "Decimal" THEN DecV(n) ELSE IntV(n)

\* ------------------------------------------- decimal.Decimal arithmetic
\* the number of digits of a coefficient
RECURSIVE Digits(_)
Digits(n) == IF n < 10 THEN 1 ELSE 1 + Digits(n \div 10)

\* num / den rounded to an integer, ties to the even neighbour (ROUND_HALF_EVEN)
RoundHalfEven(num, den) ==
    LET q == num \div den
        twice == 2 * (num % den)
    IN IF twice > den \/ (twice = den /\ q % 2 = 1) THEN q + 1 ELSE q

\* the result of an arithmetic operation is rounded to the precision of the
\* context: a coefficient c with more than ContextPrec digits loses the rest
ContextRound(c) ==
    LET k == Digits(Abs(c)) - ContextPrec
        r == RoundHalfEven(Abs(c), 10 ^ k) * 10 ^ k
    IN IF k <= 0 THEN c ELSE IF c < 0 THEN -r ELSE r

\* value.quantize(Decimal("1.0000000000"), ROUND_DOWN) of num / den (in units
\* of the last fractional digit): InvalidOperation when the coefficient of the
\* result has more digits than the context allows
Quantize(num, den) ==
    IF Digits(Abs(QuantizeDown(num, den))) > ContextPrec THEN Raise("InvalidOperation")
    ELSE Ok("Decimal", DecV(QuantizeDown(num, den)))

\* left / right in the context: the quotient a / b with ContextPrec significant
\* digits, as the pair num / den of its value in units of the last fractional
\* digit (the exponent is found digit by digit)
RECURSIVE ContextDivide(_, _, _, _)
ContextDivide(num, den, up, down) ==
    IF num = 0 THEN [num |-> 0, den |-> 1]
    ELSE IF num < 10 ^ (ContextPrec - 1) * den THEN ContextDivide(num * 10, den, up, down * 10)
    ELSE IF num >= 10 ^ ContextPrec * den THEN ContextDivide(num, den * 10, up * 10, down)
    ELSE IF down >= DecimalScale
         THEN [num |-> RoundHalfEven(num, den) * up, den |-> down \div DecimalScale]
    ELSE [num |-> RoundHalfEven(num, den) * up * (DecimalScale \div down), den |-> 1]

\* Add._op and Sub._op: operator.add and operator.sub
Sum_op(left, n) == IF left.ty = "Decimal" THEN DecV(ContextRound(n)) ELSE IntV(n)

\* Mult._op
Mult_op(left, right) ==
    IF left.ty = "Decimal" THEN Quantize(ContextRound(left.n * right.n), DecimalScale)
    ELSE Ok("Int", IntV(left.n * right.n))

\* Div._op for a non-zero divisor
\* Div._op without the correction of a negative quotient
Div_op_floor(left, right) ==
    IF left.ty = "Decimal"
    THEN LET q == ContextDivide(Abs(left.n), Abs(right.n), 1, 1)
         IN IF (left.n < 0) = (right.n < 0) THEN Quantize(q.num, q.den) ELSE Quantize(-q.num, q.den)
    ELSE Ok("Int", IntV(PyFloorDiv(left.n, right.n)))

Div_op(left, right) ==
    IF left.ty = "Decimal"
    THEN LET q == ContextDivide(Abs(left.n), Abs(right.n), 1, 1)
         IN IF (left.n < 0) = (right.n < 0) THEN Quantize(q.num, q.den) ELSE Quantize(-q.num, q.den)
    ELSE LET value == PyFloorDiv(left.n, right.n)
         IN IF value < 0 THEN Ok("Int", IntV(-PyFloorDiv(-left.n, right.n))) ELSE Ok("Int", IntV(value))

\* Mod._op for a non-zero modulus
\* Mod._op negating for a negative divisor instead of a negative dividend
Mod_op_divisorSign(left, right) ==
    IF left.ty = "Decimal"
    THEN LET l == ContextRound(Abs(left.n))
             r == ContextRound(Abs(right.n))
         IN IF Digits(l \div r) > ContextPrec THEN Raise("InvalidOperation")
            ELSE Ok("Decimal", DecV(IF right.n < 0 THEN -(l % r) ELSE l % r))
    ELSE LET value == Abs(left.n) % Abs(right.n)
         IN Ok("Int", IntV(IF right.n < 0 THEN -value ELSE value))

Mod_op(left, right) ==
    IF left.ty = "Decimal"
    THEN LET l == ContextRound(Abs(left.n))
             r == ContextRound(Abs(right.n))
         IN IF Digits(l \div r) > ContextPrec THEN Raise("InvalidOperation")
            ELSE Ok("Decimal", DecV(IF left.n < 0 THEN -(l % r) ELSE l % r))
    ELSE LET value == Abs(left.n) % Abs(right.n)
         IN Ok("Int", IntV(IF left.n < 0 THEN -value ELSE value))

\* int(left ** right) for integers; a negative exponent yields a float
Pow_int(l, r) ==
    IF r >= 0 THEN l ^ r
    ELSE IF l = 1 THEN 1
    ELSE IF l = -1 THEN (IF (-r) % 2 = 0 THEN 1 ELSE -1)
    ELSE 0

\* self.op._op(left.value, right.value) of BinOp.evaluate
BinOp_op(op, left, right) ==
    CASE op = "Add" -> Ok(left.ty, Sum_op(left, left.n + right.n))
      [] op = "Sub" -> Ok(left.ty, Sum_op(left, left.n - right.n))
      [] op = "Mult" -> Mult_op(left, right)
      [] op = "Div" -> IF right.n = 0 THEN Raise("ZeroDivisionException")
                       ELSE Div_op(left, right)
      [] op = "Mod" -> IF right.n = 0 THEN Raise("ZeroDivisionException")
                       ELSE Mod_op(left, right)
      [] op = "Pow" -> IF left.ty = "Decimal" THEN Raise("TypeMismatch")
                       ELSE IF left.n = 0 /\ right.n < 0 THEN Raise("ZeroDivisionError")
                       ELSE Ok(left.ty, IntV(Pow_int(left.n, right.n)))
      [] OTHER -> Raise("AttributeError")

ClsOf(h, fv) == IF fv.k = "node" THEN h[fv.r].cls ELSE ""
ValueOf(h, fv) == IF fv.k = "node" /\ "value" \in DOMAIN h[fv.r].fields THEN h[fv.r].fields["value"] ELSE NoneF
\* the node class that carries a plain value of a Python type
WithCls(res, cls) == IF res.kind = "new" THEN [res EXCEPT !.cls = cls] ELSE res

\* --------------------------------------------------------------- evaluate
\* UnaryOp.evaluate
UnaryOp_evaluate(h, self) ==
    LET op == ClsOf(h, h[self].fields["op"])
        operand == h[self].fields["operand"]
        ocls == ClsOf(h, operand)
        v == ValueOf(h, operand)
    IN IF op = "Not" /\ ~IsInstance(ocls, {"NameConstant"}) THEN UnfoldableNode
       ELSE IF op = "USub" /\ ~IsInstance(ocls, {"Int", "Decimal"}) THEN UnfoldableNode
       ELSE IF op = "Not"
            THEN Ok(ocls, BoolV(IF v.k = "none" THEN TRUE ELSE v.n = 0))
       ELSE IF op = "USub" THEN Ok(ocls, Sum_op(v, -v.n))
       ELSE Raise("AttributeError")

\* a test that lets an integer meet a decimal
SameType_numeric(left, right) == left = right \/ {left, right} = {"Int", "Decimal"}

\* `type(left) is not type(right)`, negated
SameType(left, right) == left = right

\* BinOp.evaluate
BinOp_evaluate(h, self) ==
    LET left == h[self].fields["left"]
        right == h[self].fields["right"]
    IN IF ~SameType(ClsOf(h, left), ClsOf(h, right)) THEN UnfoldableNode
       ELSE IF ~IsInstance(ClsOf(h, left), {"Int", "Decimal"}) THEN UnfoldableNode
       ELSE WithCls(BinOp_op(ClsOf(h, h[self].fields["op"]), ValueOf(h, left), ValueOf(h, right)),
                    ClsOf(h, left))

\* Python truth value of a plain value
Truthy(v) == IF v.ty = "str" THEN v.str # "" ELSE v.k # "none" /\ v.n # 0

\* BoolOp.evaluate
BoolOp_evaluate(h, self) ==
    LET op == ClsOf(h, h[self].fields["op"])
        values == h[self].fields["values"].s
        vals == [i \in 1..Len(values) |-> ValueOf(h, NodeF(values[i]))]
    IN IF \E i \in 1..Len(values) : ~IsInstance(h[values[i]].cls, {"NameConstant"}) THEN UnfoldableNode
       ELSE IF \E i \in 1..Len(vals) : vals[i].k = "none" THEN UnfoldableNode
       ELSE IF op = "And" THEN Ok("NameConstant", BoolV(\A i \in 1..Len(vals) : Truthy(vals[i])))
       ELSE IF op = "Or" THEN Ok("NameConstant", BoolV(\E i \in 1..Len(vals) : Truthy(vals[i])))
       ELSE Raise("AttributeError")

\* the comparison operators on two plain values of comparable type
Compare_op(op, l, r) ==
    CASE op = "Eq" -> PyValEq(l, r)
      [] op = "NotEq" -> ~PyValEq(l, r)
      [] op = "Lt" -> Scaled(l) < Scaled(r)
      [] op = "LtE" -> Scaled(l) <= Scaled(r)
      [] op = "Gt" -> Scaled(l) > Scaled(r)
      [] op = "GtE" -> Scaled(l) >= Scaled(r)
      [] OTHER -> FALSE

\* In._op on the first element only
In_op_first(left, right) == Len(right) > 0 /\ PyValEq(left, right[1])

\* In._op: `left in right`, right being the list of the elements' values
In_op(left, right) == \E i \in 1..Len(right) : PyValEq(left, right[i])

\* Compare.evaluate
Compare_evaluate(h, self) ==
    LET left == h[self].fields["left"]
        right == h[self].fields["right"]
        op == ClsOf(h, h[self].fields["op"])
        lcls == ClsOf(h, left)
        rcls == ClsOf(h, right)
        elts == h[right.r].fields["elts"].s
    IN IF ~IsInstance(lcls, {"Constant"}) THEN UnfoldableNode
       ELSE IF op = "In"
            THEN IF ~IsInstance(rcls, {"List"}) THEN UnfoldableNode
                 ELSE IF \E i \in 1..Len(elts) : ~IsInstance(h[elts[i]].cls, {"Constant"}) THEN UnfoldableNode
                 ELSE IF Cardinality({h[elts[i]].cls : i \in 1..Len(elts)}) > 1 THEN UnfoldableNode
                 ELSE Ok("NameConstant",
                         BoolV(In_op(ValueOf(h, left), [i \in 1..Len(elts) |-> ValueOf(h, NodeF(elts[i]))])))
       ELSE IF ~IsInstance(lcls, {rcls}) THEN UnfoldableNode
       ELSE IF op \notin {"Eq", "NotEq"} /\ ~IsInstance(lcls, {"Int", "Decimal"}) THEN Raise("TypeMismatch")
       ELSE Ok("NameConstant", BoolV(Compare_op(op, ValueOf(h, left), ValueOf(h, right))))

\* Subscript.evaluate: the element node itself is returned
Subscript_evaluate(h, self) ==
    LET value == h[self].fields["value"]
        elts == h[value.r].fields["elts"].s
        idx == IF h[self].fields["slice"].k = "node"
               THEN Get(h, h[self].fields["slice"].r, <<"value", "value">>) ELSE NoneF
    IN IF ~IsInstance(ClsOf(h, value), {"List"}) THEN UnfoldableNode
       ELSE IF Cardinality({h[elts[i]].cls : i \in 1..Len(elts)}) > 1 THEN UnfoldableNode
       ELSE IF ~(idx.k = "val" /\ idx.ty \in {"int", "bool"}) \/ idx.n < 0 \/ idx.n >= Len(elts)
            THEN UnfoldableNode
       ELSE OkRef(elts[idx.n + 1])

\* node.evaluate(): every other class raises UnfoldableNode
evaluate(h, self) ==
    CASE h[self].cls = "UnaryOp" -> UnaryOp_evaluate(h, self)
      [] h[self].cls = "BinOp" -> BinOp_evaluate(h, self)
      [] h[self].cls = "BoolOp" -> BoolOp_evaluate(h, self)
      [] h[self].cls = "Compare" -> Compare_evaluate(h, self)
      [] h[self].cls = "Subscript" -> Subscript_evaluate(h, self)
      [] OTHER -> UnfoldableNode

\* ---------------------------------------------------------- replace_in_tree
Root == 1

Perms(S) == {q \in [1..Cardinality(S) -> S] : \A i, j \in 1..Cardinality(S) : q[i] = q[j] => i = j}

ListIndex(h, x, s) == CHOOSE i \in 1..Len(s) :
                     /\ s[i] = x \/ NodeEq(h, s[i], x)
                     /\ \A j \in 1..(i - 1) : ~(s[j] = x \/ NodeEq(h, s[j], x))

\* the loop over parent.get_fields(): keys is the part of the iteration order
\* still to visit; a field is rebound as soon as it is found to hold old_node
RECURSIVE ScanFields(_, _, _, _, _, _)
ScanFields(h, parent, keys, old_node, new_node, is_replaced) ==
    IF Len(keys) = 0 THEN [h |-> h, is_replaced |-> is_replaced, exc |-> ""]
    ELSE LET key == Head(keys)
             obj == h[parent].fields[key]
         IN IF obj.k = "node" /\ NodeEq(h, obj.r, old_node)
            THEN IF is_replaced
                 THEN [h |-> h, is_replaced |-> is_replaced, exc |-> "CompilerPanic"]
                 ELSE ScanFields(SetField(h, parent, key, NodeF(new_node)), parent, Tail(keys),
                                 old_node, new_node, TRUE)
            ELSE IF obj.k = "list" /\ Count(h, old_node, obj.s) > 0
            THEN IF is_replaced \/ Count(h, old_node, obj.s) > 1
                 THEN [h |-> h, is_replaced |-> is_replaced, exc |-> "CompilerPanic"]
                 ELSE ScanFields(SetField(h, parent, key,
                                          ListF([obj.s EXCEPT ![ListIndex(h, old_node, obj.s)] = new_node])),
                                 parent, Tail(keys), old_node, new_node, TRUE)
            ELSE ScanFields(h, parent, Tail(keys), old_node, new_node, is_replaced)

\* the depth given to the node that is spliced in
ReplacedDepth_kept(h, old_node, new_node) == h[new_node].depth
ReplacedDepth(h, old_node, new_node) == h[old_node].depth

\* Module.replace_in_tree(old_node, new_node); keys is the iteration order of
\* parent.get_fields().  The result carries the heap as the call leaves it.
replace_in_tree(h, old_node, new_node, keys) ==
    LET parent == h[old_node].parent
    IN IF ~InSeq(h, old_node, get_descendants(h, Root, {h[old_node].cls}, NoFilter, FALSE, FALSE))
       THEN [ok |-> FALSE, exc |-> "CompilerPanic", h |-> h]
       ELSE IF parent = None THEN [ok |-> FALSE, exc |-> "AttributeError", h |-> h]
       ELSE IF ~InSet(h, old_node, h[parent].children)
       THEN [ok |-> FALSE, exc |-> "CompilerPanic", h |-> h]
       ELSE Bind(ScanFields(h, parent, keys, old_node, new_node, FALSE), LAMBDA scan :
               IF scan.exc # "" THEN [ok |-> FALSE, exc |-> scan.exc, h |-> scan.h]
               ELSE IF ~scan.is_replaced THEN [ok |-> FALSE, exc |-> "CompilerPanic", h |-> scan.h]
               ELSE LET removed == h[parent].children \ Matches(scan.h, old_node, h[parent].children)
                        h1 == [scan.h EXCEPT ![parent].children = removed]
                        h2 == [h1 EXCEPT ![new_node].parent = parent,
                                         ![new_node].depth = ReplacedDepth(h, old_node, new_node)]
                    IN Bind(h2, LAMBDA h3 :
                           [ok |-> TRUE, exc |-> "",
                            h |-> [h3 EXCEPT ![parent].children = SetAdd(h3, new_node, @)]]))

\* the iteration orders of parent.get_fields() (a set of strings), when the
\* call gets as far as the loop
KeyOrders(h, old_node) ==
    IF \/ h[old_node].parent = None
       \/ ~InSeq(h, old_node, get_descendants(h, Root, {h[old_node].cls}, NoFilter, FALSE, FALSE))
       \/ ~InSet(h, old_node, h[h[old_node].parent].children)
    THEN {<<>>}
    ELSE Perms(DOMAIN h[h[old_node].parent].fields)

\* ------------------------------------------------------------------ _replace
RECURSIVE _replace(_, _, _)
RECURSIVE _replace_elts(_, _, _, _)

\* list_values = [_replace(old_node, i) for i in new_node.elts]
_replace_elts(h, old_node, elts, acc) ==
    IF Len(elts) = 0 THEN [ok |-> TRUE, h |-> h, s |-> acc]
    ELSE Bind(_replace(h, old_node, Head(elts)), LAMBDA r :
             IF ~r.ok THEN [ok |-> FALSE, h |-> h, s |-> acc]
             ELSE _replace_elts(r.h, old_node, Tail(elts), Append(acc, r.ref)))

\* _replace(old_node, new_node): a copy of the literal new_node made from
\* old_node; ok is FALSE when UnfoldableNode is raised
_replace(h, old_node, new_node) ==
    IF new_node = None THEN [ok |-> FALSE, h |-> h, ref |-> None]
    ELSE IF IsInstance(h[new_node].cls, {"Constant"})
    THEN [ok |-> TRUE, ref |-> Len(h) + 1,
          h |-> from_node(h, h[new_node].cls, old_node, "value", h[new_node].fields["value"])]
    ELSE IF IsInstance(h[new_node].cls, {"List"})
    THEN Bind(_replace_elts(h, old_node, h[new_node].fields["elts"].s, <<>>), LAMBDA r :
             IF ~r.ok THEN [ok |-> FALSE, h |-> h, ref |-> None]
             ELSE [ok |-> TRUE, ref |-> Len(r.h) + 1,
                   h |-> from_node(r.h, h[new_node].cls, old_node, "elts", ListF(r.s))])
    ELSE [ok |-> FALSE, h |-> h, ref |-> None]

\* ------------------------------------------------------------ the registry
\* a registry of the two address and hash constants only
BUILTIN_CONSTANTS_hex ==
    << [name |-> "EMPTY_BYTES32", cls |-> "Hex",
        value |-> StrV("0x0000000000000000000000000000000000000000000000000000000000000000")],
       [name |-> "ZERO_ADDRESS", cls |-> "Hex",
        value |-> StrV("0x0000000000000000000000000000000000000000")] >>

\* BUILTIN_CONSTANTS, in the order of the dict
BUILTIN_CONSTANTS ==
    << [name |-> "EMPTY_BYTES32", cls |-> "Hex",
        value |-> StrV("0x0000000000000000000000000000000000000000000000000000000000000000")],
       [name |-> "ZERO_ADDRESS", cls |-> "Hex",
        value |-> StrV("0x0000000000000000000000000000000000000000")],
       [name |-> "MAX_INT128", cls |-> "Int", value |-> IntV(2 ^ Int128Width - 1)],
       [name |-> "MIN_INT128", cls |-> "Int", value |-> IntV(-(2 ^ Int128Width))],
       [name |-> "MAX_DECIMAL", cls |-> "Decimal", value |-> DecV((2 ^ Int128Width - 1) * DecimalScale)],
       [name |-> "MIN_DECIMAL", cls |-> "Decimal", value |-> DecV((-(2 ^ Int128Width)) * DecimalScale)],
       [name |-> "MAX_UINT256", cls |-> "Int", value |-> IntV(2 ^ UInt256Width - 1)] >>

\* the builtin functions of DISPATCH_TABLE that the model knows, and whether
\* the entry has an `evaluate` method
DISPATCH_TABLE == [floor |-> TRUE, send |-> FALSE]

\* Floor.evaluate(node): one Decimal literal argument folds to its floor
Floor_evaluate(h, node) ==
    LET args == h[node].fields["args"]
    IN IF args.k # "list" \/ Len(args.s) # 1 THEN UnfoldableNode
       ELSE IF ~IsInstance(h[args.s[1]].cls, {"Decimal"}) THEN UnfoldableNode
       ELSE Ok("Int", IntV(PyFloorDiv(h[args.s[1]].fields["value"].n, DecimalScale)))

\* the body of the loop of replace_builtin_functions up to the call of evaluate
builtin_evaluate(h, node) ==
    LET func == h[node].fields["func"]
        name == IF func.k = "node" THEN h[func.r].fields["id"].str ELSE ""
    IN IF ~IsInstance(ClsOf(h, func), {"Name"}) THEN UnfoldableNode
       ELSE IF name \notin DOMAIN DISPATCH_TABLE THEN UnfoldableNode
       ELSE IF ~DISPATCH_TABLE[name] THEN UnfoldableNode
       ELSE Floor_evaluate(h, node)

\* ------------------------------------------------------ replace_constant body
\* Skipped without the exemption of a name held by an Index
Skipped_noIndex(h, node) ==
    LET parent == get_ancestor(h, node, AllTypes)
        pcls == IF parent = None THEN "" ELSE h[parent].cls
        assign == get_ancestor(h, node, {"Assign", "AnnAssign", "AugAssign"})
        target == IF assign = None THEN NoneF ELSE h[assign].fields["target"]
    IN \/ IsInstance(pcls, {"Attribute"})
       \/ /\ IsInstance(pcls, {"Call"})
          /\ h[parent].fields["func"].k = "node"
          /\ NodeEq(h, node, h[parent].fields["func"].r)
       \/ /\ IsInstance(pcls, {"Dict"})
          /\ h[parent].fields["keys"].k = "list"
          /\ InSeq(h, node, h[parent].fields["keys"].s)
       \/ /\ assign # None
          /\ target.k = "node"
          /\ InSeq(h, node, get_descendants(h, target.r, AllTypes, NoFilter, TRUE, FALSE))

\* the conditions under which the loop of replace_constant leaves a name alone
Skipped(h, node) ==
    LET parent == get_ancestor(h, node, AllTypes)
        pcls == IF parent = None THEN "" ELSE h[parent].cls
        assign == get_ancestor(h, node, {"Assign", "AnnAssign", "AugAssign"})
        target == IF assign = None THEN NoneF ELSE h[assign].fields["target"]
    IN \/ IsInstance(pcls, {"Attribute"})
       \/ /\ IsInstance(pcls, {"Call"})
          /\ h[parent].fields["func"].k = "node"
          /\ NodeEq(h, node, h[parent].fields["func"].r)
       \/ /\ IsInstance(pcls, {"Dict"})
          /\ h[parent].fields["keys"].k = "list"
          /\ InSeq(h, node, h[parent].fields["keys"].s)
       \/ /\ ~IsInstance(pcls, {"Index"})
          /\ assign # None
          /\ target.k = "node"
          /\ InSeq(h, node, get_descendants(h, target.r, AllTypes, NoFilter, TRUE, FALSE))

\* ------------------------------------------------------------ source trees
\* the annotated structures the front end hands to get_node; operator nodes
\* carry no source offset of their own
sName(l, c, id) == D("Name", l, c, <<kV("id", StrV(id))>>)
sInt(l, c, n) == D("Int", l, c, <<kV("value", IntV(n))>>)
sDecimal(l, c, n) == D("Decimal", l, c, <<kV("value", DecV(n))>>)
sBool(l, c, b) == D("NameConstant", l, c, <<kV("value", BoolV(b))>>)
sOp(cls) == D(cls, None, None, <<>>)
sList(l, c, elts) == D("List", l, c, <<kL("elts", elts)>>)
sBinOp(l, c, left, op, right) == D("BinOp", l, c, <<kN("left", left), kN("op", sOp(op)), kN("right", right)>>)
sUnaryOp(l, c, op, operand) == D("UnaryOp", l, c, <<kN("op", sOp(op)), kN("operand", operand)>>)
sBoolOp(l, c, op, values) == D("BoolOp", l, c, <<kN("op", sOp(op)), kL("values", values)>>)
sStr(l, c, str) == D("Str", l, c, <<kV("value", StrV(str))>>)
sCompare(l, c, left, op, right) == D("Compare", l, c, <<kN("left", left), kN("op", sOp(op)), kN("right", right)>>)
sIndex(l, c, value) == D("Index", l, c, <<kN("value", value)>>)
sSubscript(l, c, value, index) == D("Subscript", l, c, <<kN("value", value), kN("slice", index), kN("ctx", sOp("Load"))>>)
sCall(l, c, func, args) == D("Call", l, c, <<kN("func", func), kL("args", args), kL("keywords", <<>>)>>)
sAttribute(l, c, value, attr) == D("Attribute", l, c, <<kN("value", value), kV("attr", StrV(attr))>>)
sExpr(l, c, value) == D("Expr", l, c, <<kN("value", value)>>)
sAssign(l, c, target, value) == D("Assign", l, c, <<kN("target", target), kN("value", value)>>)
sAnnAssign(l, c, target, annotation, value) ==
    D("AnnAssign", l, c, <<kN("target", target), kN("annotation", annotation), kN("value", value)>>)
sAugAssign(l, c, target, op, value) ==
    D("AugAssign", l, c, <<kN("target", target), kN("op", sOp(op)), kN("value", value)>>)
sDict(l, c, keys, values) == D("Dict", l, c, <<kL("keys", keys), kL("values", values)>>)
sConstant(l, c, type) == sCall(l, c, sName(l, c, "constant"), <<sName(l, c + 9, type)>>)
sModule(body) == D("Module", 1, 0, <<kL("body", body)>>)

\* FEE: constant(int128) = 2 + 3
\* x: int128 = FEE * 10
SrcFee ==
    sModule(<< sAnnAssign(1, 0, sName(1, 0, "FEE"), sConstant(1, 5, "int128"),
                          sBinOp(1, 24, sInt(1, 24, 2), "Add", sInt(1, 28, 3))),
               sAnnAssign(2, 0, sName(2, 0, "x"), sName(2, 3, "int128"),
                          sBinOp(2, 12, sName(2, 12, "FEE"), "Mult", sInt(2, 18, 10))) >>)

\* X: constant(int128) = [1, 2]
\* y: int128 = X[1]
\* z: int128 = X
SrcList ==
    sModule(<< sAnnAssign(1, 0, sName(1, 0, "X"), sConstant(1, 3, "int128"),
                          sList(1, 22, <<sInt(1, 23, 1), sInt(1, 26, 2)>>)),
               sAnnAssign(2, 0, sName(2, 0, "y"), sName(2, 3, "int128"),
                          sSubscript(2, 12, sName(2, 12, "X"), sIndex(2, 14, sInt(2, 14, 1)))),
               sAnnAssign(3, 0, sName(3, 0, "z"), sName(3, 3, "int128"), sName(3, 12, "X")) >>)

\* not (not True)
\* (1 + 2) * -3 < 4 and True
SrcNested ==
    sModule(<< sExpr(1, 0, sUnaryOp(1, 0, "Not", sUnaryOp(1, 5, "Not", sBool(1, 9, TRUE)))),
               sExpr(2, 0, sBoolOp(2, 0, "And",
                     << sCompare(2, 0,
                                 sBinOp(2, 0, sBinOp(2, 1, sInt(2, 1, 1), "Add", sInt(2, 5, 2)), "Mult",
                                        sUnaryOp(2, 10, "USub", sInt(2, 11, 3))),
                                 "Lt", sInt(2, 15, 4)),
                        sBool(2, 21, TRUE) >>)) >>)

\* a: int128 = MAX_INT128 - 1
\* b: int128 = floor(2.50) + 1
\* send(ZERO_ADDRESS, MAX_INT128)
SrcBuiltin ==
    sModule(<< sAnnAssign(1, 0, sName(1, 0, "a"), sName(1, 3, "int128"),
                          sBinOp(1, 12, sName(1, 12, "MAX_INT128"), "Sub", sInt(1, 25, 1))),
               sAnnAssign(2, 0, sName(2, 0, "b"), sName(2, 3, "int128"),
                          sBinOp(2, 12, sCall(2, 12, sName(2, 12, "floor"), <<sDecimal(2, 18, 250)>>),
                                 "Add", sInt(2, 26, 1))),
               sExpr(3, 0, sCall(3, 0, sName(3, 0, "send"),
                                 <<sName(3, 5, "ZERO_ADDRESS"), sName(3, 19, "MAX_INT128")>>)) >>)

\* [10, 20, 30][1]
\* [[floor(1.50), 2]][0]
\* [1, 2][5]
SrcSubscript ==
    sModule(<< sExpr(1, 0, sSubscript(1, 0, sList(1, 0, <<sInt(1, 1, 10), sInt(1, 5, 20), sInt(1, 9, 30)>>),
                                      sIndex(1, 13, sInt(1, 13, 1)))),
               sExpr(2, 0, sSubscript(2, 0,
                       sList(2, 0, <<sList(2, 1, << sCall(2, 2, sName(2, 2, "floor"), <<sDecimal(2, 8, 150)>>),
                                                    sInt(2, 15, 2) >>)>>),
                       sIndex(2, 19, sInt(2, 19, 0)))),
               sExpr(3, 0, sSubscript(3, 0, sList(3, 0, <<sInt(3, 1, 1), sInt(3, 4, 2)>>),
                                      sIndex(3, 7, sInt(3, 7, 5)))) >>)

\* LIMIT: constant(int128) = 2 + 3
\* LIMIT(x)
\* LIMIT.foo
\* a[LIMIT] = LIMIT
SrcSkip ==
    sModule(<< sAnnAssign(1, 0, sName(1, 0, "LIMIT"), sConstant(1, 7, "int128"),
                          sBinOp(1, 26, sInt(1, 26, 2), "Add", sInt(1, 30, 3))),
               sExpr(2, 0, sCall(2, 0, sName(2, 0, "LIMIT"), <<sName(2, 6, "x")>>)),
               sExpr(3, 0, sAttribute(3, 0, sName(3, 0, "LIMIT"), "foo")),
               sAssign(4, 0, sSubscript(4, 0, sName(4, 0, "a"), sIndex(4, 2, sName(4, 2, "LIMIT"))),
                       sName(4, 11, "LIMIT")) >>)

\* A: constant(int128) = 1
\* B: constant(int128) = A + 1
\* c: int128 = B * 2
\* d: int128 = c / 0
SrcChain ==
    sModule(<< sAnnAssign(1, 0, sName(1, 0, "A"), sConstant(1, 3, "int128"), sInt(1, 22, 1)),
               sAnnAssign(2, 0, sName(2, 0, "B"), sConstant(2, 3, "int128"),
                          sBinOp(2, 22, sName(2, 22, "A"), "Add", sInt(2, 26, 1))),
               sAnnAssign(3, 0, sName(3, 0, "c"), sName(3, 3, "int128"),
                          sBinOp(3, 12, sName(3, 12, "B"), "Mult", sInt(3, 16, 2))),
               sAnnAssign(4, 0, sName(4, 0, "d"), sName(4, 3, "int128"),
                          sBinOp(4, 12, sName(4, 12, "c"), "Div", sInt(4, 16, 0))) >>)

\* Y: constant(int128) = foo(1)
\* Y + 1
\* 7 / (3 - 3)
SrcError ==
    sModule(<< sAnnAssign(1, 0, sName(1, 0, "Y"), sConstant(1, 3, "int128"),
                          sCall(1, 22, sName(1, 22, "foo"), <<sInt(1, 26, 1)>>)),
               sExpr(2, 0, sBinOp(2, 0, sName(2, 0, "Y"), "Add", sInt(2, 4, 1))),
               sExpr(3, 0, sBinOp(3, 0, sInt(3, 0, 7), "Div",
                                  sBinOp(3, 5, sInt(3, 5, 3), "Sub", sInt(3, 9, 3)))) >>)

\* a[[MAX_INT128][0]] = 1
\* MIN_INT128
SrcIndex ==
    sModule(<< sAssign(1, 0,
                       sSubscript(1, 0, sName(1, 0, "a"),
                                  sIndex(1, 2, sSubscript(1, 2, sList(1, 2, <<sName(1, 3, "MAX_INT128")>>),
                                                          sIndex(1, 15, sInt(1, 15, 0))))),
                       sInt(1, 21, 1)),
               sExpr(2, 0, sName(2, 0, "MIN_INT128")) >>)

\* LIMIT: constant(int128) = 5
\* {LIMIT: LIMIT}
\* a[LIMIT + 1] = LIMIT
\* LIMIT += 1
SrcPositions ==
    sModule(<< sAnnAssign(1, 0, sName(1, 0, "LIMIT"), sConstant(1, 7, "int128"), sInt(1, 26, 5)),
               sExpr(2, 0, sDict(2, 0, <<sName(2, 1, "LIMIT")>>, <<sName(2, 8, "LIMIT")>>)),
               sAssign(3, 0, sSubscript(3, 0, sName(3, 0, "a"),
                                        sIndex(3, 2, sBinOp(3, 2, sName(3, 2, "LIMIT"), "Add", sInt(3, 10, 1)))),
                       sName(3, 15, "LIMIT")),
               sAugAssign(4, 0, sName(4, 0, "LIMIT"), "Add", sInt(4, 9, 1)) >>)

\* Y: constant(int128) = foo(1)
\* z: int128 = Y + 1
SrcUnfoldable ==
    sModule(<< sAnnAssign(1, 0, sName(1, 0, "Y"), sConstant(1, 3, "int128"),
                          sCall(1, 22, sName(1, 22, "foo"), <<sInt(1, 26, 1)>>)),
               sAnnAssign(2, 0, sName(2, 0, "z"), sName(2, 3, "int128"),
                          sBinOp(2, 12, sName(2, 12, "Y"), "Add", sInt(2, 16, 1))) >>)

\* a: int128 = 1 + 2
\* b: bool = "a" < "b"
\* c: int128 = 3 + 4
SrcMismatch ==
    sModule(<< sAnnAssign(1, 0, sName(1, 0, "a"), sName(1, 3, "int128"),
                          sBinOp(1, 12, sInt(1, 12, 1), "Add", sInt(1, 16, 2))),
               sAnnAssign(2, 0, sName(2, 0, "b"), sName(2, 3, "bool"),
                          sCompare(2, 10, sStr(2, 10, "a"), "Lt", sStr(2, 16, "b"))),
               sAnnAssign(3, 0, sName(3, 0, "c"), sName(3, 3, "int128"),
                          sBinOp(3, 12, sInt(3, 12, 3), "Add", sInt(3, 16, 4))) >>)

\* X: constant(int128) = [1, 1]
\* y: int128 = [X[0], [2][0]][1] + X[1]
SrcElements ==
    sModule(<< sAnnAssign(1, 0, sName(1, 0, "X"), sConstant(1, 3, "int128"),
                          sList(1, 22, <<sInt(1, 23, 1), sInt(1, 26, 1)>>)),
               sAnnAssign(2, 0, sName(2, 0, "y"), sName(2, 3, "int128"),
                          sBinOp(2, 12,
                                 sSubscript(2, 12,
                                            sList(2, 12,
                                                  << sSubscript(2, 13, sName(2, 13, "X"),
                                                                sIndex(2, 15, sInt(2, 15, 0))),
                                                     sSubscript(2, 19, sList(2, 19, <<sInt(2, 20, 2)>>),
                                                                sIndex(2, 23, sInt(2, 23, 0))) >>),
                                            sIndex(2, 27, sInt(2, 27, 1))),
                                 "Add",
                                 sSubscript(2, 32, sName(2, 32, "X"), sIndex(2, 34, sInt(2, 34, 1))))) >>)

Sources == <<SrcFee, SrcList, SrcNested, SrcBuiltin, SrcSubscript, SrcSkip, SrcChain, SrcError, SrcIndex,
             SrcPositions, SrcUnfoldable, SrcMismatch, SrcElements>>

VARIABLES
    heap,           \* the node objects
    pc,             \* where the folding driver stands
    todo,           \* the rest of the list the current loop iterates over
    decls,          \* the rest of the AnnAssign list of replace_user_defined_constants
    bidx,           \* how many entries of BUILTIN_CONSTANTS have been started
    cur,            \* the arguments of the running replace_constant call
    changed_nodes,  \* substitutions counted in the current round
    foldNo,         \* which run of fold() this is
    last,           \* the latest replace_in_tree call: arguments and outcome
    exc,            \* the exception that left fold(), if any
    calls,          \* tree-mutator specification: calls made so far
    evaluated,      \* evaluation specification: the outcome of node.evaluate()
    compared        \* comparison specification: the outcome of compare_nodes()

vars == <<heap, pc, todo, decls, bidx, cur, changed_nodes, foldNo, last, exc, calls, evaluated, compared>>

NoCall == [n |-> 0, old |-> None, new |-> None, ok |-> TRUE, by |-> ""]
NoCur == [id |-> "", repl |-> None, raise_on_error |-> FALSE]
NotEvaluated == [node |-> None, kind |-> "", ref |-> None]
NotCompared == [left |-> None, right |-> None, equal |-> FALSE]

Init ==
    /\ \E i \in 1..Len(Sources) : heap = get_node(<<>>, Sources[i], None).h
    /\ pc = "start"
    /\ todo = <<>>
    /\ decls = <<>>
    /\ bidx = 0
    /\ cur = NoCur
    /\ changed_nodes = 0
    /\ foldNo = 1
    /\ last = NoCall
    /\ exc = ""
    /\ calls = [made |-> 0, replaced |-> 0]
    /\ evaluated = NotEvaluated
    /\ compared = NotCompared

\* one iteration that ends in `continue`
Continue ==
    /\ todo' = Tail(todo)
    /\ UNCHANGED <<heap, pc, decls, bidx, cur, changed_nodes, foldNo, last, exc, calls, evaluated, compared>>

\* an exception leaves the pass and the driver
Abort(h, e) ==
    /\ heap' = h
    /\ pc' = "error"
    /\ exc' = e
    /\ todo' = <<>>
    /\ UNCHANGED <<decls, bidx, cur, changed_nodes, foldNo, last, calls, evaluated, compared>>

\* changed_nodes += 1; srilang_module.replace_in_tree(node, new_node)
Substitute(h, node, new_node, by) ==
    \E keys \in KeyOrders(h, node) :
        \E r \in {replace_in_tree(h, node, new_node, keys)} :
           /\ heap' = r.h
           /\ last' = [n |-> last.n + 1, old |-> node, new |-> new_node, ok |-> r.ok, by |-> by]
           /\ changed_nodes' = changed_nodes + 1
           /\ IF r.ok
              THEN /\ todo' = Tail(todo)
                   /\ UNCHANGED <<pc, exc, calls, evaluated, compared>>
              ELSE /\ todo' = <<>>
                   /\ pc' = "error"
                   /\ exc' = r.exc
           /\ UNCHANGED <<decls, bidx, cur, foldNo, calls, evaluated, compared>>

\* an except clause that catches every exception
Caught_all == {"UnfoldableNode", "ZeroDivisionException", "TypeMismatch", "InvalidOperation"}

\* `except UnfoldableNode: continue` around node.evaluate()
Caught == {"UnfoldableNode"}

\* the loop body shared by replace_literal_ops, replace_subscripts and
\* replace_builtin_functions, for the outcome res of the evaluation
EvaluateAndReplace(node, res, by) ==
    IF res.kind \in Caught THEN Continue
    ELSE IF res.kind = "new"
    THEN \E h \in {from_node(heap, res.cls, node, "value", res.val)} :
            Substitute(h, node, Len(heap) + 1, by)
    ELSE IF res.kind = "ref" THEN Substitute(heap, node, res.ref, by)
    ELSE Abort(heap, res.kind)

\* fold(): the call enters replace_builtin_constants
fold ==
    /\ pc = "start"
    /\ pc' = "builtin"
    /\ bidx' = 0
    /\ todo' = <<>>
    /\ UNCHANGED <<heap, decls, cur, changed_nodes, foldNo, last, exc, calls, evaluated, compared>>

\* replace_builtin_constants: the next entry of BUILTIN_CONSTANTS; its literal
\* node(value=value) is built (it has no node_id) and replace_constant starts
replace_builtin_constants ==
    /\ pc = "builtin"
    /\ todo = <<>>
    /\ bidx < Len(BUILTIN_CONSTANTS)
    /\ LET b == BUILTIN_CONSTANTS[bidx + 1]
           node == [NewNode(heap, b.cls, None, None, None, None) EXCEPT !.fields["value"] = b.value]
       IN /\ heap' = Append(heap, node)
          /\ cur' = [id |-> b.name, repl |-> Len(heap) + 1, raise_on_error |-> TRUE]
          /\ todo' = get_descendants(heap, Root, {"Name"}, {<<(<<"id">>), StrV(b.name)>>}, FALSE, TRUE)
    /\ bidx' = bidx + 1
    /\ UNCHANGED <<pc, decls, changed_nodes, foldNo, last, exc, calls, evaluated, compared>>

\* `changed_nodes = 0` at the head of a round
RoundStartCount_keep(count) == count
RoundStartCount(count) == 0

\* a loop that is left after its first round
LoopAgain_once(count) == FALSE

\* `while changed_nodes:`
LoopAgain(count) == count # 0

\* the node_types of replace_literal_ops
LiteralOpTypes_noCompare == {"BoolOp", "BinOp", "UnaryOp"}
LiteralOpTypes == {"BoolOp", "BinOp", "UnaryOp", "Compare"}

\* the head of a round of the loop of fold(): changed_nodes = 0 and
\* replace_user_defined_constants lists the AnnAssign children of the module
BeginRound ==
    /\ pc' = "user"
    /\ changed_nodes' = RoundStartCount(changed_nodes)
    /\ decls' = get_children(heap, Root, {"AnnAssign"}, NoFilter, FALSE)
    /\ todo' = <<>>
    /\ cur' = NoCur
    /\ UNCHANGED <<heap, bidx, foldNo, last, exc, calls, evaluated, compared>>

\* replace_builtin_constants has returned: the first round starts
fold_first_round ==
    /\ pc = "builtin"
    /\ todo = <<>>
    /\ bidx = Len(BUILTIN_CONSTANTS)
    /\ BeginRound

\* one iteration of the loop of replace_constant
replace_constant ==
    /\ pc \in {"builtin", "user"}
    /\ todo # <<>>
    /\ LET node == Head(todo)
       IN IF Skipped(heap, node) THEN Continue
          ELSE \E r \in {_replace(heap, node, cur.repl)} :
                  IF ~r.ok
                  THEN IF cur.raise_on_error THEN Abort(heap, "UnfoldableNode") ELSE Continue
                  ELSE Substitute(r.h, node, r.ref, "replace_constant")

\* the raise_on_error argument passed for a user-defined constant
UserRaiseOnError_raise == TRUE
UserRaiseOnError == FALSE

\* one iteration of the loop of replace_user_defined_constants
replace_user_defined_constants ==
    /\ pc = "user"
    /\ todo = <<>>
    /\ decls # <<>>
    /\ LET node == Head(decls)
           isConst == /\ IsInstance(ClsOf(heap, heap[node].fields["target"]), {"Name"})
                      /\ PyValEq(Get(heap, node, <<"annotation", "func", "id">>), StrV("constant"))
           id == heap[heap[node].fields["target"].r].fields["id"]
           value == heap[node].fields["value"]
       IN IF ~isConst THEN UNCHANGED <<todo, cur, calls, evaluated, compared>>
          ELSE /\ cur' = [id |-> id.str, repl |-> IF value.k = "node" THEN value.r ELSE None,
                          raise_on_error |-> UserRaiseOnError]
               /\ todo' = get_descendants(heap, Root, {"Name"}, {<<(<<"id">>), id>>}, FALSE, TRUE)
    /\ decls' = Tail(decls)
    /\ UNCHANGED <<heap, pc, bidx, changed_nodes, foldNo, last, exc, calls, evaluated, compared>>

\* a pass that visits the nodes in source order
PassReverse_forward == FALSE

\* `get_descendants(node_types, reverse=True)` of the three passes
PassReverse == TRUE

BeginPass(from, to, types) ==
    /\ pc = from
    /\ todo = <<>>
    /\ pc' = to
    /\ todo' = get_descendants(heap, Root, types, NoFilter, FALSE, PassReverse)
    /\ UNCHANGED <<heap, decls, bidx, cur, changed_nodes, foldNo, last, exc, calls, evaluated, compared>>

\* replace_literal_ops lists the operation nodes, deepest first
replace_literal_ops_begin ==
    /\ decls = <<>>
    /\ BeginPass("user", "literal", LiteralOpTypes)

\* one iteration of the loop of replace_literal_ops
replace_literal_ops ==
    /\ pc = "literal"
    /\ todo # <<>>
    /\ \E res \in {evaluate(heap, Head(todo))} : EvaluateAndReplace(Head(todo), res, "replace_literal_ops")

replace_subscripts_begin == BeginPass("literal", "subscript", {"Subscript"})

\* one iteration of the loop of replace_subscripts
replace_subscripts ==
    /\ pc = "subscript"
    /\ todo # <<>>
    /\ \E res \in {evaluate(heap, Head(todo))} : EvaluateAndReplace(Head(todo), res, "replace_subscripts")

replace_builtin_functions_begin == BeginPass("subscript", "call", {"Call"})

\* one iteration of the loop of replace_builtin_functions
replace_builtin_functions ==
    /\ pc = "call"
    /\ todo # <<>>
    /\ \E res \in {builtin_evaluate(heap, Head(todo))} : EvaluateAndReplace(Head(todo), res, "replace_builtin_functions")

\* `while changed_nodes:` after a round
fold_next_round ==
    /\ pc = "call"
    /\ todo = <<>>
    /\ LoopAgain(changed_nodes)
    /\ BeginRound

\* fold() returns
fold_return ==
    /\ pc = "call"
    /\ todo = <<>>
    /\ ~LoopAgain(changed_nodes)
    /\ pc' = "done"
    /\ UNCHANGED <<heap, todo, decls, bidx, cur, changed_nodes, foldNo, last, exc, calls, evaluated, compared>>

\* fold() is called once more on the tree it has folded
fold_again ==
    /\ pc = "done"
    /\ foldNo < MaxFolds
    /\ foldNo' = foldNo + 1
    /\ pc' = "start"
    /\ UNCHANGED <<heap, todo, decls, bidx, cur, changed_nodes, last, exc, calls, evaluated, compared>>

Next ==
    \/ fold
    \/ replace_builtin_constants
    \/ fold_first_round
    \/ replace_constant
    \/ replace_user_defined_constants
    \/ replace_literal_ops_begin
    \/ replace_literal_ops
    \/ replace_subscripts_begin
    \/ replace_subscripts
    \/ replace_builtin_functions_begin
    \/ replace_builtin_functions
    \/ fold_next_round
    \/ fold_return
    \/ fold_again

Spec == Init /\ [][Next]_vars

\* the driver runs to its end: every enabled step is eventually taken
FairSpec == Spec /\ WF_vars(Next)

\* ------------------------------------------- the tree mutator called directly
\* a + b
SrcBinOp == sModule(<< sExpr(1, 0, sBinOp(1, 0, sName(1, 0, "a"), "Add", sName(1, 4, "b"))) >>)
\* [1, 2]
SrcElts == sModule(<< sExpr(1, 0, sList(1, 0, <<sInt(1, 1, 1), sInt(1, 4, 2)>>)) >>)

MutatorInit ==
    /\ \E src \in {SrcBinOp, SrcElts} : heap = get_node(<<>>, src, None).h
    /\ pc = "mutator"
    /\ todo = <<>>
    /\ decls = <<>>
    /\ bidx = 0
    /\ cur = NoCur
    /\ changed_nodes = 0
    /\ foldNo = 1
    /\ last = NoCall
    /\ exc = ""
    /\ calls = [made |-> 0, replaced |-> 0]
    /\ evaluated = NotEvaluated
    /\ compared = NotCompared

Refs == 1..Len(heap)
\* the plain field of a Name or a literal
PlainField(cls) == IF cls = "Name" THEN "id" ELSE "value"

\* cls.from_node(node, ...): a detached node is made from a Name or a literal
\* of the tree, of the same class with the same field value or an Int
call_from_node ==
    /\ pc = "mutator"
    /\ calls.made < MaxMade /\ calls.replaced = 0
    /\ \E node \in Refs :
          /\ IsInstance(heap[node].cls, {"Name", "Int"})
          /\ \/ heap' = from_node(heap, heap[node].cls, node, PlainField(heap[node].cls),
                                  heap[node].fields[PlainField(heap[node].cls)])
             \/ heap' = from_node(heap, "Int", node, "value", IntV(0))
    /\ calls' = [calls EXCEPT !.made = @ + 1]
    /\ UNCHANGED <<pc, todo, decls, bidx, cur, changed_nodes, foldNo, last, exc, evaluated, compared>>

\* Int(parent=parent, value=0, node_id=...): a node is constructed with a
\* parent; it joins the children of the parent, no field of the parent holds it
call_construct ==
    /\ pc = "mutator"
    /\ calls.made < MaxMade /\ calls.replaced = 0
    /\ \E parent \in Refs :
          /\ heap[parent].cls \in {"BinOp", "List"}
          /\ LET node == [NewNode(heap, "Int", Len(heap), parent, None, None)
                            EXCEPT !.fields["value"] = IntV(0)]
                 h1 == Append(heap, node)
             IN heap' = [h1 EXCEPT ![parent].children = SetAdd(h1, Len(h1), @)]
    /\ calls' = [calls EXCEPT !.made = @ + 1]
    /\ UNCHANGED <<pc, todo, decls, bidx, cur, changed_nodes, foldNo, last, exc, evaluated, compared>>

\* srilang_module.replace_in_tree(old_node, new_node) with any node as
\* old_node and a Name or literal as new_node; a CompilerPanic ends the run
call_replace_in_tree ==
    /\ pc = "mutator"
    /\ calls.replaced < MaxCalls
    /\ \E old_node \in Refs, new_node \in Refs \ {Root} :
          /\ IsInstance(heap[new_node].cls, {"Name", "Int"})
          /\ heap[new_node].children = {}
          /\ new_node # old_node
          /\ \E keys \in KeyOrders(heap, old_node) :
                \E r \in {replace_in_tree(heap, old_node, new_node, keys)} :
                   /\ heap' = r.h
                   /\ last' = [n |-> last.n + 1, old |-> old_node, new |-> new_node,
                               ok |-> r.ok, by |-> "call"]
                   /\ exc' = r.exc
                   /\ pc' = IF r.ok THEN "mutator" ELSE "error"
    /\ calls' = [calls EXCEPT !.replaced = @ + 1]
    /\ UNCHANGED <<todo, decls, bidx, cur, changed_nodes, foldNo, evaluated, compared>>

MutatorNext == call_from_node \/ call_construct \/ call_replace_in_tree

MutatorSpec == MutatorInit /\ [][MutatorNext]_vars

\* ------------------------------------------------ evaluate() called directly

\* integer operands; a negative literal is what folding a unary minus leaves
IntOperands == (-MaxOperand)..MaxOperand
\* decimal operands, in units of the last fractional digit
SmallDecimals == {-150, -33, -1, 0, 1, 33, 125, 150}
LargeDecimals == {-100001, 100001, 1000000}

\* a * b, a / b, a % b over integer literals
IntegerInputs ==
    {sBinOp(1, 0, sInt(1, 0, a), op, sInt(1, 4, b)) :
        a \in IntOperands, b \in IntOperands, op \in {"Mult", "Div", "Mod"}}

\* x * y and x / y over decimal literals
DecimalInputs ==
    {sBinOp(1, 0, sDecimal(1, 0, x), "Mult", sDecimal(1, 10, y)) :
        x \in SmallDecimals \cup LargeDecimals, y \in SmallDecimals}
    \cup {sBinOp(1, 0, sDecimal(1, 0, x), "Mult", sDecimal(1, 10, y)) :
             x \in SmallDecimals, y \in LargeDecimals}
    \cup {sBinOp(1, 0, sDecimal(1, 0, x), "Div", sDecimal(1, 10, y)) :
             x \in SmallDecimals, y \in SmallDecimals}

\* the left sides and the right sides of `x in L`
MembershipLeft == {sInt(1, 0, 1), sInt(1, 0, 3), sStr(1, 0, "a"), sBool(1, 0, TRUE), sDecimal(1, 0, 100),
                   sName(1, 0, "x")}
MembershipRight ==
    {sList(1, 5, elts) :
        elts \in {<<>>,
                  <<sInt(1, 6, 1), sInt(1, 9, 2), sInt(1, 12, 3)>>,
                  <<sInt(1, 6, 1), sStr(1, 9, "a")>>,
                  <<sStr(1, 6, "a"), sStr(1, 11, "b")>>,
                  <<sBool(1, 6, TRUE), sBool(1, 12, FALSE)>>,
                  <<sDecimal(1, 6, 100), sDecimal(1, 12, 300)>>,
                  <<sDecimal(1, 6, 300), sInt(1, 12, 3)>>,
                  <<sInt(1, 6, 1), sName(1, 9, "n")>>,
                  <<sName(1, 6, "n")>>}}
    \cup {sName(1, 5, "L")}
MembershipInputs == {sCompare(1, 0, x, "In", L) : x \in MembershipLeft, L \in MembershipRight}

\* the subscripted values and the index expressions of `value[index]`
SubscriptValues ==
    {sList(1, 0, elts) :
        elts \in {<<>>,
                  <<sInt(1, 1, 10), sInt(1, 5, 20), sInt(1, 9, 30)>>,
                  <<sInt(1, 1, 10), sInt(1, 5, 20)>>,
                  <<sInt(1, 1, 1), sStr(1, 4, "a")>>,
                  <<sName(1, 1, "a"), sName(1, 4, "b")>>,
                  <<sList(1, 1, <<sInt(1, 2, 1)>>), sList(1, 6, <<sInt(1, 7, 2)>>)>>}}
    \cup {sName(1, 0, "x")}
SubscriptIndexes ==
    {sInt(1, 12, i) : i \in -1..3}
    \cup {sBool(1, 12, TRUE), sBool(1, 12, FALSE), sDecimal(1, 12, DecimalScale), sStr(1, 12, "a"),
          sName(1, 12, "i"), sUnaryOp(1, 12, "USub", sInt(1, 13, 1))}
SubscriptInputs == {sSubscript(1, 0, v, sIndex(1, 12, i)) : v \in SubscriptValues, i \in SubscriptIndexes}

\* the operands of `left op right`: literals of every kind and a name
ArithmeticOperands(c) ==
    {sInt(1, c, 2), sInt(1, c, 3), sDecimal(1, c, 2 * DecimalScale), sDecimal(1, c, DecimalScale + 1),
     sBool(1, c, TRUE), sStr(1, c, "a"), sName(1, c, "x")}
ArithmeticInputs ==
    {sBinOp(1, 0, l, op, r) :
        l \in ArithmeticOperands(0), r \in ArithmeticOperands(8), op \in {"Add", "Sub", "Mult", "Pow"}}

\* the operands of `not x` and `-x`
sNone(l, c) == D("NameConstant", l, c, <<kV("value", NoneF)>>)
UnaryOperands ==
    {sInt(1, 4, 0), sInt(1, 4, 5), sInt(1, 4, -5), sDecimal(1, 4, DecimalScale + 1), sDecimal(1, 4, 0),
     sBool(1, 4, TRUE), sBool(1, 4, FALSE), sNone(1, 4), sStr(1, 4, "a"), sName(1, 4, "x"),
     sList(1, 4, <<>>), sUnaryOp(1, 4, "Not", sBool(1, 8, TRUE)), sUnaryOp(1, 4, "USub", sInt(1, 5, 1))}
UnaryInputs == {sUnaryOp(1, 0, op, x) : op \in {"Not", "USub"}, x \in UnaryOperands}

EvalInputs ==
    IntegerInputs \cup DecimalInputs \cup MembershipInputs \cup SubscriptInputs \cup ArithmeticInputs
        \cup UnaryInputs

EvalInit ==
    /\ \E e \in EvalInputs : heap = get_node(<<>>, sModule(<<sExpr(1, 0, e)>>), None).h
    /\ pc = "evaluate"
    /\ todo = <<>>
    /\ decls = <<>>
    /\ bidx = 0
    /\ cur = NoCur
    /\ changed_nodes = 0
    /\ foldNo = 1
    /\ last = NoCall
    /\ exc = ""
    /\ calls = [made |-> 0, replaced |-> 0]
    /\ evaluated = NotEvaluated
    /\ compared = NotCompared

\* the expression of the statement: module.body[0].value
Subject(h) == h[h[Root].fields["body"].s[1]].fields["value"].r

\* node.evaluate(): the literal it returns is made by from_node and is not
\* part of the tree; an exception leaves the heap as it is
call_evaluate ==
    /\ pc = "evaluate"
    /\ \E res \in {evaluate(heap, Subject(heap))} :
          /\ heap' = IF res.kind = "new"
                     THEN from_node(heap, res.cls, Subject(heap), "value", res.val)
                     ELSE heap
          /\ evaluated' = [node |-> Subject(heap), kind |-> res.kind,
                           ref |-> IF res.kind = "new" THEN Len(heap) + 1 ELSE res.ref]
    /\ pc' = "evaluated"
    /\ UNCHANGED <<todo, decls, bidx, cur, changed_nodes, foldNo, last, exc, calls, compared>>

EvalNext == call_evaluate

EvalSpec == EvalInit /\ [][EvalNext]_vars

\* -------------------------------------------- compare_nodes() called directly
\* the expressions compared, written at column c
CompareOperands(c) ==
    {sInt(1, c, 1), sInt(1, c, 2), sDecimal(1, c, 100), sBool(1, c, TRUE), sStr(1, c, "a"),
     sName(1, c, "x"), sName(1, c, "y"),
     sList(1, c, <<>>), sList(1, c, <<sInt(1, c + 1, 1)>>),
     sList(1, c, <<sInt(1, c + 1, 1), sInt(1, c + 4, 2)>>),
     sList(1, c, <<sInt(1, c + 1, 1), sInt(1, c + 4, 2), sInt(1, c + 7, 3)>>),
     sList(1, c, <<sInt(1, c + 1, 2), sInt(1, c + 4, 2)>>),
     sBinOp(1, c, sName(1, c, "a"), "Add", sInt(1, c + 4, 1)),
     sBinOp(1, c, sName(1, c, "a"), "Sub", sInt(1, c + 4, 1)),
     sCall(1, c, sName(1, c, "f"), <<>>),
     sCall(1, c, sName(1, c, "f"), <<sInt(1, c + 2, 1)>>),
     sUnaryOp(1, c, "USub", sInt(1, c + 1, 1))}

\* the module `[left, right]`
CompareInputs ==
    {sModule(<<sExpr(1, 0, sList(1, 0, <<l, r>>))>>) : l \in CompareOperands(1), r \in CompareOperands(20)}

CompareInit ==
    /\ \E src \in CompareInputs : heap = get_node(<<>>, src, None).h
    /\ pc = "compare"
    /\ todo = <<>>
    /\ decls = <<>>
    /\ bidx = 0
    /\ cur = NoCur
    /\ changed_nodes = 0
    /\ foldNo = 1
    /\ last = NoCall
    /\ exc = ""
    /\ calls = [made |-> 0, replaced |-> 0]
    /\ evaluated = NotEvaluated
    /\ compared = NotCompared

\* the two elements of the list: module.body[0].value.elts
Compared(h) == h[Subject(h)].fields["elts"].s

\* compare_nodes(left, right)
call_compare_nodes ==
    /\ pc = "compare"
    /\ compared' = [left |-> Compared(heap)[1], right |-> Compared(heap)[2],
                    equal |-> compare_nodes(heap, Compared(heap)[1], Compared(heap)[2])]
    /\ pc' = "compared"
    /\ UNCHANGED <<heap, todo, decls, bidx, cur, changed_nodes, foldNo, last, exc, calls, evaluated>>

CompareNext == call_compare_nodes

CompareSpec == CompareInit /\ [][CompareNext]_vars

\* --------------------------------------------- get_node() called directly
sHex(l, c, str) == D("Hex", l, c, <<kV("value", StrV(str))>>)

\* the ast_structs a node is built from: literals, a hex literal with three
\* digits, a string with a character beyond 255, a statement nodes.py has no
\* class for, comparisons and assignments with one and with two operands or
\* targets, a raise with a cause, and expressions that hold such a part
ConstructInputs ==
    {sInt(2, 0, 7), sHex(2, 0, "0x12"), sHex(2, 0, "0x123"), sStr(2, 0, "a"), sStr(2, 0, "price \\u20ac"),
     D("Delete", 2, 0, <<kL("targets", <<sName(2, 4, "x")>>)>>),
     D("Compare", 2, 0, <<kN("left", sInt(2, 0, 1)), kL("ops", <<sOp("Lt")>>),
                          kL("comparators", <<sInt(2, 4, 2)>>)>>),
     D("Compare", 2, 0, <<kN("left", sInt(2, 0, 1)), kL("ops", <<sOp("Lt"), sOp("Lt")>>),
                          kL("comparators", <<sInt(2, 4, 2), sInt(2, 8, 3)>>)>>),
     D("Assign", 2, 0, <<kL("targets", <<sName(2, 0, "x")>>), kN("value", sInt(2, 4, 1))>>),
     D("Assign", 2, 0, <<kL("targets", <<sName(2, 0, "x"), sName(2, 4, "y")>>), kN("value", sInt(2, 8, 1))>>),
     D("Raise", 2, 0, <<kN("exc", sName(2, 6, "e")), kN("cause", sName(2, 13, "c"))>>),
     sBinOp(2, 0, sHex(2, 0, "0x123"), "Add", sInt(2, 8, 1)),
     sList(2, 0, <<sInt(2, 1, 1), D("Slice", 2, 4, <<>>)>>)}

ConstructInit ==
    /\ \E src \in {SrcBinOp, SrcElts} : heap = get_node(<<>>, src, None).h
    /\ pc = "construct"
    /\ todo = <<>>
    /\ decls = <<>>
    /\ bidx = 0
    /\ cur = NoCur
    /\ changed_nodes = 0
    /\ foldNo = 1
    /\ last = NoCall
    /\ exc = ""
    /\ calls = [made |-> 0, replaced |-> 0]
    /\ evaluated = NotEvaluated
    /\ compared = NotCompared

\* get_node(ast_struct, parent) with a node of the tree as parent; last
\* keeps the parent and the node made, exc the exception raised
call_get_node ==
    /\ pc = "construct"
    /\ \E parent \in Refs, st \in ConstructInputs :
          \E r \in {get_node(heap, st, parent)} :
             /\ heap' = r.h
             /\ last' = [n |-> last.n + 1, old |-> parent, new |-> r.ref, ok |-> r.exc = "", by |-> "get_node"]
             /\ exc' = r.exc
             /\ pc' = IF r.exc = "" THEN "constructed" ELSE "error"
    /\ UNCHANGED <<todo, decls, bidx, cur, changed_nodes, foldNo, calls, evaluated, compared>>

ConstructNext == call_get_node

ConstructSpec == ConstructInit /\ [][ConstructNext]_vars

\* =================================================================== claims
\* the nodes a node holds in its node-valued fields
FieldKids(h, r) ==
    {h[r].fields[f].r : f \in {g \in DOMAIN h[r].fields : h[r].fields[g].k = "node"}}
    \cup UNION {{h[r].fields[f].s[i] : i \in 1..Len(h[r].fields[f].s)} :
                    f \in {g \in DOMAIN h[r].fields : h[r].fields[g].k = "list"}}

RECURSIVE ReachFrom(_, _, _)
ReachFrom(h, frontier, seen) ==
    IF frontier = {} THEN seen
    ELSE LET next == (UNION {FieldKids(h, r) : r \in frontier}) \ seen
         IN ReachFrom(h, next, seen \cup next)

\* the nodes reachable from the root through node-valued fields
InTree(h) == ReachFrom(h, {Root}, {Root})

\* the number of field slots of p that hold the object n
SlotCount(h, p, n) ==
    Cardinality({f \in DOMAIN h[p].fields : h[p].fields[f].k = "node" /\ h[p].fields[f].r = n})
    + Cardinality({<<f, i>> \in (DOMAIN h[p].fields) \X (1..Len(h)) :
                      /\ h[p].fields[f].k = "list"
                      /\ i <= Len(h[p].fields[f].s)
                      /\ h[p].fields[f].s[i] = n})

Owned(h, n) ==
    /\ h[n].parent # None
    /\ SlotCount(h, h[n].parent, n) = 1
    /\ n \in h[h[n].parent].children

\* C1: every node reachable from the root through node-valued fields, other
\* than the root, is held by exactly one field slot of its parent and is a
\* member of its parent's child set, after construction and after any
\* sequence of folding substitutions
C1_Ownership == \A n \in InTree(heap) \ {Root} : Owned(heap, n)

\* C2: fold() terminates: once called, the driver reaches a round in which
\* the passes make no substitution and returns (or an error leaves it)
C2_Terminates == (pc = "start") ~> ((pc = "done" /\ changed_nodes = 0) \/ pc = "error")
C2_Witness == pc = "done" /\ foldNo = 1 /\ last.n >= 3

\* the tree as seen from the root: the reachable objects and their contents
TreeView(h) == [r \in InTree(h) |-> h[r]]

\* C3: a second fold() on a tree that fold() has returned normally makes no
\* substitution, in replace_builtin_constants or in any pass of its round,
\* and leaves the tree unchanged
C3_Idempotent ==
    [][foldNo >= 2 /\ foldNo' = foldNo
          => last' = last /\ changed_nodes' = 0 /\ TreeView(heap') = TreeView(heap)]_vars

\* the module-level declarations `name: constant(...) = value`
ConstantDecls(h) ==
    {d \in h[Root].children :
        /\ h[d].cls = "AnnAssign"
        /\ ClsOf(h, h[d].fields["target"]) = "Name"
        /\ PyValEq(Get(h, d, <<"annotation", "func", "id">>), StrV("constant"))}

\* a literal scalar, or a list of such values
RECURSIVE IsLiteralValue(_, _)
IsLiteralValue(h, r) ==
    \/ IsInstance(h[r].cls, {"Constant"})
    \/ /\ h[r].cls = "List"
       /\ \A i \in 1..Len(h[r].fields["elts"].s) : IsLiteralValue(h, h[r].fields["elts"].s[i])

\* C4: when fold() returns normally, no UnaryOp, BinOp, BoolOp, Compare or
\* Subscript node of the tree would evaluate to a literal, and no
\* substitutable reference to a user-defined constant with a literal
\* initializer is left
C4_NormalForm ==
    pc = "done" =>
        /\ \A n \in InTree(heap) :
              heap[n].cls \in {"UnaryOp", "BinOp", "BoolOp", "Compare", "Subscript"}
                  => ~IsOk(evaluate(heap, n))
        /\ \A d \in ConstantDecls(heap) :
              (heap[d].fields["value"].k = "node" /\ IsLiteralValue(heap, heap[d].fields["value"].r))
                  => \A n \in InTree(heap) :
                        (heap[n].cls = "Name" /\ heap[n].fields["id"] = heap[heap[d].fields["target"].r].fields["id"])
                            => Skipped(heap, n)
C4_Witness ==
    /\ pc = "done"
    /\ last.n >= 3
    /\ \E d \in ConstantDecls(heap) :
          /\ heap[d].fields["value"].k = "node"
          /\ IsLiteralValue(heap, heap[d].fields["value"].r)
          /\ \E n \in InTree(heap) \ {heap[d].fields["target"].r} :
                /\ heap[n].cls = "Name"
                /\ heap[n].fields["id"] = heap[heap[d].fields["target"].r].fields["id"]

\* a step that is a call of replace_in_tree(last'.old, last'.new)
IsCall == last'.n = last.n + 1

\* a field value with every slot that holds the object old_node rebound
Rebound(fv, old_node, new_node) ==
    IF fv.k = "node" /\ fv.r = old_node THEN NodeF(new_node)
    ELSE IF fv.k = "list"
    THEN ListF([i \in 1..Len(fv.s) |-> IF fv.s[i] = old_node THEN new_node ELSE fv.s[i]])
    ELSE fv

\* the heap that the stated effect of replace_in_tree(old_node, new_node) leaves
AfterReplace(h, old_node, new_node) ==
    LET parent == h[old_node].parent
    IN [r \in 1..Len(h) |->
           IF r = parent
           THEN [h[r] EXCEPT !.fields = [f \in DOMAIN @ |-> Rebound(@[f], old_node, new_node)],
                             !.children = (@ \ {old_node}) \cup {new_node}]
           ELSE IF r = new_node
           THEN [h[r] EXCEPT !.parent = parent, !.depth = h[old_node].depth]
           ELSE h[r]]

\* C5: a successful replace_in_tree(old, new) rebinds the single slot of
\* old.parent that held old to new, removes old from the child set of
\* old.parent and adds new, sets new.parent and new.depth from old, and
\* changes nothing else (no other slot, child set, parent, depth or node_id)
C5_Effect ==
    [][(IsCall /\ last'.ok)
          => /\ heap[last'.old].parent # None
             /\ SlotCount(heap, heap[last'.old].parent, last'.old) = 1
             /\ \A r \in 1..Len(heap') : heap'[r] = AfterReplace(heap, last'.old, last'.new)[r]]_vars

\* C6: replace_in_tree(old, new) raises CompilerPanic whenever the number of
\* field slots of old.parent that hold old is not one; it succeeds only when
\* exactly one slot holds old
C6_SlotCheck ==
    [][(IsCall /\ heap[last'.old].parent # None)
          => /\ SlotCount(heap, heap[last'.old].parent, last'.old) # 1
                    => ~last'.ok /\ exc' = "CompilerPanic"
             /\ last'.ok => SlotCount(heap, heap[last'.old].parent, last'.old) = 1]_vars

\* old_node is the root, is not reachable from the root, or is not a
\* registered child of its parent
NotReplaceable(h, old_node) ==
    \/ old_node = Root
    \/ old_node \notin InTree(h)
    \/ h[old_node].parent = None
    \/ old_node \notin h[h[old_node].parent].children

\* C7: replace_in_tree(old, new) raises CompilerPanic whenever old is the
\* root, is not reachable from the root or is not a registered child of its
\* parent, also when an equal node (same class, id and fields) is in the tree
C7_MustBeInTree ==
    [][(IsCall /\ NotReplaceable(heap, last'.old))
          => ~last'.ok /\ exc' = "CompilerPanic"]_vars

\* the nodes below n: through child sets and through node-valued fields
RECURSIVE BelowFrom(_, _, _)
BelowFrom(h, frontier, seen) ==
    IF frontier = {} THEN seen
    ELSE LET next == (UNION {FieldKids(h, r) \cup h[r].children : r \in frontier}) \ seen
         IN BelowFrom(h, next, seen \cup next)
Below(h, n) == BelowFrom(h, {n}, {}) \ {n}

\* the depth of d when replace_in_tree is entered: a node made for this
\* substitution by from_node has no parent and depth 0
DepthBefore(d) == IF d <= Len(heap) THEN heap[d].depth ELSE 0

\* C8: after a successful replace_in_tree(old, new), new.depth is old.depth
\* and every descendant of new has the depth it had before the call
C8_DepthPreserved ==
    [][(IsCall /\ last'.ok)
          => /\ heap'[last'.new].depth = heap[last'.old].depth
             /\ \A d \in Below(heap', last'.new) : heap'[d].depth = DepthBefore(d)]_vars
C8_Witness ==
    /\ last.n >= 1
    /\ last.ok
    /\ last.by = "replace_subscripts"
    /\ heap[last.new].children # {}
    /\ heap[last.new].depth = heap[last.old].depth

\* the nodes that carry a node_id (the literal of a BUILTIN_CONSTANTS entry is
\* built without one)
WithId(h) == {r \in 1..Len(h) : h[r].node_id # None}

\* C9 as stated: every constructed node has a fresh node_id, no two distinct
\* nodes share a node_id, and the id of a detached node never reappears
C9_Unique ==
    \A a, b \in WithId(heap) : a # b => heap[a].node_id # heap[b].node_id

\* C9, amended: the nodes built by the front end have pairwise distinct
\* ids, no node_id ever changes, and a node synthesized for a substitution
\* carries the node_id of the node it replaces
C9_IdsKept ==
    [][/\ (pc = "start" /\ foldNo = 1) => C9_Unique
       /\ \A r \in 1..Len(heap) : heap'[r].node_id = heap[r].node_id
       /\ IsCall => \A r \in (Len(heap) + 1)..Len(heap') :
                       heap'[r].node_id = heap[last'.old].node_id]_vars
C9_Witness ==
    /\ last.n >= 1
    /\ last.ok
    /\ last.by = "replace_constant"
    /\ last.new # last.old
    /\ heap[last.new].node_id = heap[last.old].node_id
    /\ last.new \in InTree(heap)
    /\ last.old \notin InTree(heap)

\* the nodes that the traversal of get_descendants visits below n
RECURSIVE ChildrenFrom(_, _, _)
ChildrenFrom(h, frontier, seen) ==
    IF frontier = {} THEN seen
    ELSE LET next == (UNION {h[r].children : r \in frontier}) \ seen
         IN ChildrenFrom(h, next, seen \cup next)
Descendants(h, n) == ChildrenFrom(h, {n}, {}) \ {n}

\* C10: in get_descendants() of any node of the tree a node comes before
\* all of its own descendants, and with reverse=True the list is the exact
\* reverse; for the trees of the front end and for the trees folding leaves
C10_DescendantOrder ==
    pc # "mutator" =>
        \A n \in Descendants(heap, Root) \cup {Root} :
           LET forward == get_descendants(heap, n, AllTypes, NoFilter, FALSE, FALSE)
               backward == get_descendants(heap, n, AllTypes, NoFilter, FALSE, TRUE)
           IN /\ \A i, j \in 1..Len(forward) :
                    forward[j] \in Descendants(heap, forward[i]) => i < j
              /\ backward = Reverse(forward)
C10_Witness ==
    /\ pc = "done"
    /\ last.n >= 3
    /\ LET forward == get_descendants(heap, Root, AllTypes, NoFilter, FALSE, FALSE)
       IN /\ last.new \in {forward[i] : i \in 1..Len(forward)}
          /\ \E i, j \in 1..Len(forward) :
                /\ forward[j] \in Descendants(heap, forward[i])
                /\ heap[forward[i]].lineno = heap[forward[j]].lineno
                /\ heap[forward[i]].col_offset = heap[forward[j]].col_offset

\* the nodes strictly below n, reachable through node-valued fields
FieldBelow(h, n) == ReachFrom(h, {n}, {}) \ {n}

\* the variants and filters the queries of the claims are made with
QueryTypes == {AllTypes, {"Name"}, {"Int"}, {"Constant"}, {"List", "Subscript"}}
QueryFilters == {NoFilter, {<<(<<"id">>), StrV("X")>>}, {<<(<<"value">>), IntV(2)>>}}

\* what get_descendants(variant, filters, include_self) of n is said to return
MatchingBelow(h, n, types, filters, include_self) ==
    {d \in FieldBelow(h, n) : TypeMatch(h[d].cls, types) /\ _node_filter(h, d, filters)}
    \cup (IF include_self /\ TypeMatch(h[n].cls, types) /\ _node_filter(h, n, filters)
          THEN {n} ELSE {})

\* C11: get_descendants(variant, filters, include_self) of a node of the tree
\* returns exactly the nodes strictly below it (through node-valued fields)
\* that match the variant and every filter, each once, and the node itself
\* exactly when include_self is set and it matches; also after folding
C11_ExactDescendants ==
    pc # "mutator" =>
        \A n \in InTree(heap) :
           \A types \in QueryTypes, filters \in QueryFilters, include_self \in BOOLEAN :
              \E res \in {get_descendants(heap, n, types, filters, include_self, FALSE)} :
                 /\ {res[i] : i \in 1..Len(res)} = MatchingBelow(heap, n, types, filters, include_self)
                 /\ \A i, j \in 1..Len(res) : res[i] = res[j] => i = j
\* ---- direct evaluation: what call_evaluate is applied to and what it gave
\* the left or right operand node of the evaluated expression
Operand(h, side) == h[h[Subject(h)].fields[side].r]
\* the evaluated expression is `left op right` over two literals of class kind
Evaluates(h, cls, op, kind) ==
    /\ h[Subject(h)].cls = cls
    /\ ClsOf(h, h[Subject(h)].fields["op"]) = op
    /\ Operand(h, "left").cls = kind
    /\ Operand(h, "right").cls = kind
\* the value of the operand
Num(h, side) == Operand(h, side).fields["value"].n

\* C12: integer division folds to the quotient truncated toward zero:
\* |q| = floor(|a| / |b|), q negative exactly when a and b have opposite signs
\* and |a| >= |b|; with b = 0 evaluation raises ZeroDivisionException and no
\* literal is made.
C12_DivTruncates ==
    [][pc = "evaluate" /\ Evaluates(heap, "BinOp", "Div", "Int") =>
         LET a == Num(heap, "left")
             b == Num(heap, "right")
         IN IF b = 0
            THEN evaluated'.kind = "ZeroDivisionException" /\ heap' = heap
            ELSE /\ evaluated'.kind = "new"
                 /\ heap'[evaluated'.ref].cls = "Int"
                 /\ LET q == heap'[evaluated'.ref].fields["value"]
                    IN /\ q.ty = "int"
                       /\ Abs(q.n) = Abs(a) \div Abs(b)
                       /\ q.n < 0 <=> ((a < 0) # (b < 0) /\ Abs(a) >= Abs(b))]_vars

\* -7 / 2 has been evaluated to -3
C12_Witness ==
    /\ pc = "evaluated" /\ Evaluates(heap, "BinOp", "Div", "Int")
    /\ Num(heap, "left") = -7 /\ Num(heap, "right") = 2
    /\ evaluated.kind = "new" /\ heap[evaluated.ref].fields["value"] = IntV(-3)

\* C13: integer modulo folds to a remainder with |r| = |a| mod |b| that takes
\* the sign of the dividend a, whatever the sign of b; with b = 0 evaluation
\* raises ZeroDivisionException.
C13_ModDividendSign ==
    [][pc = "evaluate" /\ Evaluates(heap, "BinOp", "Mod", "Int") =>
         LET a == Num(heap, "left")
             b == Num(heap, "right")
         IN IF b = 0
            THEN evaluated'.kind = "ZeroDivisionException" /\ heap' = heap
            ELSE /\ evaluated'.kind = "new"
                 /\ heap'[evaluated'.ref].cls = "Int"
                 /\ LET r == heap'[evaluated'.ref].fields["value"]
                    IN /\ r.ty = "int"
                       /\ Abs(r.n) = Abs(a) % Abs(b)
                       /\ a < 0 => r.n <= 0
                       /\ a >= 0 => r.n >= 0]_vars

\* 7 % -3 has been evaluated to 1
C13_Witness ==
    /\ pc = "evaluated" /\ Evaluates(heap, "BinOp", "Mod", "Int")
    /\ Num(heap, "left") = 7 /\ Num(heap, "right") = -3
    /\ evaluated.kind = "new" /\ heap[evaluated.ref].fields["value"] = IntV(1)

\* the exact product of two scaled decimals, cut toward zero to DecimalPlaces
\* fractional digits
TruncatedProduct(x, y) ==
    IF (x < 0) = (y < 0) THEN (Abs(x) * Abs(y)) \div DecimalScale
    ELSE -((Abs(x) * Abs(y)) \div DecimalScale)

\* C14: the product of two decimal literals folds to the exact product
\* truncated toward zero to the fractional digits of the decimal type, for
\* positive and negative products; the product of two integer literals folds
\* to the exact product.
C14_MultTruncates ==
    [][pc = "evaluate" =>
         /\ Evaluates(heap, "BinOp", "Mult", "Decimal") =>
               /\ evaluated'.kind = "new"
               /\ heap'[evaluated'.ref].cls = "Decimal"
               /\ heap'[evaluated'.ref].fields["value"] =
                     DecV(TruncatedProduct(Num(heap, "left"), Num(heap, "right")))
         /\ Evaluates(heap, "BinOp", "Mult", "Int") =>
               /\ evaluated'.kind = "new"
               /\ heap'[evaluated'.ref].cls = "Int"
               /\ heap'[evaluated'.ref].fields["value"] =
                     IntV(Num(heap, "left") * Num(heap, "right"))]_vars

\* ---- membership
\* the element nodes of the list on the right of the evaluated `x in L`
Elements(h) == Operand(h, "right").fields["elts"].s
\* `x in L` with x a literal and L a list of literals
LiteralMembership(h) ==
    /\ h[Subject(h)].cls = "Compare"
    /\ ClsOf(h, h[Subject(h)].fields["op"]) = "In"
    /\ Operand(h, "left").cls \in ConstantClasses
    /\ Operand(h, "right").cls = "List"
    /\ \A i \in 1..Len(Elements(h)) : h[Elements(h)[i]].cls \in ConstantClasses
\* the literal kinds (classes) among the elements
Kinds(h) == {h[Elements(h)[i]].cls : i \in 1..Len(Elements(h))}
\* equality of two literal values: numbers by their numerical value, strings
\* by their text
SameValue(v, w) ==
    IF v.ty = "str" \/ w.ty = "str" THEN v.ty = w.ty /\ v.str = w.str
    ELSE (IF v.ty = "Decimal" THEN v.n ELSE v.n * DecimalScale)
         = (IF w.ty = "Decimal" THEN w.n ELSE w.n * DecimalScale)
\* evaluation gave the boolean literal that tells whether x is among L
GaveMembership(h, ev, h2) ==
    /\ ev.kind = "new"
    /\ h2[ev.ref].cls = "NameConstant"
    /\ h2[ev.ref].fields["value"] =
          BoolV(\E i \in 1..Len(Elements(h)) :
                   SameValue(Operand(h, "left").fields["value"], h[Elements(h)[i]].fields["value"]))

\* C15: `x in L` over a literal x and a list L of literals of one kind
\* evaluates to the boolean literal that tells whether x's value equals an
\* element's value; over a list of literals of several kinds the evaluation
\* is rejected as a type error.
C15_MembershipTypeError ==
    [][pc = "evaluate" /\ LiteralMembership(heap) =>
         IF Cardinality(Kinds(heap)) <= 1
         THEN GaveMembership(heap, evaluated', heap')
         ELSE evaluated'.kind = "TypeMismatch"]_vars

\* C15 (amended): over a list of literals of several kinds the evaluation
\* signals unfoldable (UnfoldableNode) and makes no literal; over a list of
\* one kind it gives the boolean literal as stated.
C15_MembershipUnfoldable ==
    [][pc = "evaluate" /\ LiteralMembership(heap) =>
         IF Cardinality(Kinds(heap)) <= 1
         THEN GaveMembership(heap, evaluated', heap')
         ELSE evaluated'.kind = "UnfoldableNode" /\ heap' = heap]_vars

\* 3 in [1, 2, 3] has been evaluated to True
C15_Witness ==
    /\ pc = "evaluated" /\ LiteralMembership(heap)
    /\ Operand(heap, "left").fields["value"] = IntV(3)
    /\ Len(Elements(heap)) = 3 /\ Kinds(heap) = {"Int"}
    /\ evaluated.kind = "new" /\ heap[evaluated.ref].fields["value"] = BoolV(TRUE)
\* ---- subscripts
\* the index expression of the evaluated `value[index]`, under its Index wrapper
IndexNode(h) == h[Operand(h, "slice").fields["value"].r]
\* the index is the integer literal i
IndexIs(h, i) == IndexNode(h).cls = "Int" /\ IndexNode(h).fields["value"] = IntV(i)
\* the element nodes of the subscripted list
Items(h) == Operand(h, "value").fields["elts"].s
\* the subscripted value is a list whose elements are all of one kind
UniformList(h) ==
    /\ Operand(h, "value").cls = "List"
    /\ Cardinality({h[Items(h)[k]].cls : k \in 1..Len(Items(h))}) <= 1

\* C16: a Subscript over a list of elements of one kind, with an integer
\* literal index i, 0 <= i < length, under one Index wrapper, evaluates to
\* the element node at position i; with a negative, out-of-range or
\* non-integer-literal index, a value that is no list, or a list of mixed
\* kinds, evaluation signals unfoldable and nothing changes.
C16_SubscriptElement ==
    [][pc = "evaluate" /\ heap[Subject(heap)].cls = "Subscript" =>
         IF UniformList(heap) /\ \E i \in 0..(Len(Items(heap)) - 1) : IndexIs(heap, i)
         THEN /\ evaluated'.kind = "ref"
              /\ \A i \in 0..(Len(Items(heap)) - 1) : IndexIs(heap, i) => evaluated'.ref = Items(heap)[i + 1]
              /\ heap' = heap
         ELSE evaluated'.kind = "UnfoldableNode" /\ heap' = heap]_vars
\* ---- the positions of a name in the tree
\* n is the callee of a call
IsCallee(h, n) == \E p \in InTree(h) : h[p].cls = "Call" /\ h[p].fields["func"] = NodeF(n)
\* n sits directly under an attribute access
UnderAttribute(h, n) == \E p \in InTree(h) : h[p].cls = "Attribute" /\ n \in FieldKids(h, p)
\* n is a key of a dictionary
IsDictKey(h, n) ==
    \E p \in InTree(h) : h[p].cls = "Dict" /\ \E i \in 1..Len(h[p].fields["keys"].s) : h[p].fields["keys"].s[i] = n
\* n is the index of a subscript: the value of an Index
IsIndex(h, n) == \E p \in InTree(h) : h[p].cls = "Index" /\ h[p].fields["value"] = NodeF(n)
\* n lies in the target of an assignment
InTarget(h, n) ==
    \E a \in InTree(h) :
       /\ h[a].cls \in {"Assign", "AugAssign", "AnnAssign"}
       /\ h[a].fields["target"].k = "node"
       /\ n \in ReachFrom(h, {h[a].fields["target"].r}, {h[a].fields["target"].r})
\* the occurrences the skip rules keep
KeptByRule(h, n) ==
    IsCallee(h, n) \/ UnderAttribute(h, n) \/ IsDictKey(h, n) \/ (InTarget(h, n) /\ ~IsIndex(h, n))

\* C17: for a user-defined constant with a literal value, an iteration of
\* replace_constant leaves the occurrence alone when it is the callee of a
\* call, sits directly under an attribute access, is a dictionary key or lies
\* in the target of an assignment without being the index of a subscript;
\* every other occurrence, the index of a subscript included, is replaced in
\* the tree by a literal.
C17_SkipRules ==
    [][pc = "user" /\ todo # <<>> /\ cur.repl # None /\ IsLiteralValue(heap, cur.repl) =>
         LET node == Head(todo)
         IN IF KeptByRule(heap, node)
            THEN heap' = heap /\ last' = last
            ELSE /\ last'.n = last.n + 1
                 /\ last'.old = node /\ last'.ok /\ last'.by = "replace_constant"
                 /\ node \notin InTree(heap')
                 /\ last'.new \in InTree(heap')
                 /\ IsLiteralValue(heap', last'.new)]_vars

\* the index of a[LIMIT] in an assignment target has just been substituted,
\* and the callee LIMIT(x) is still a name
C17_Witness ==
    /\ pc = "user" /\ last.by = "replace_constant" /\ last.ok
    /\ IsIndex(heap, last.new) /\ InTarget(heap, last.new)
    /\ \E n \in InTree(heap) : heap[n].cls = "Name" /\ heap[n].fields["id"] = StrV(cur.id) /\ IsCallee(heap, n)
\* ---- the end-to-end example
\* the statements of the module
Body(h) == h[Root].fields["body"].s
\* the module declares the constant FEE in its first statement and uses it
\* in the value of its second
DeclaresFee(h) ==
    /\ Len(Body(h)) = 2
    /\ Body(h)[1] \in ConstantDecls(h)
    /\ Get(h, Body(h)[1], <<"target", "id">>) = StrV("FEE")
    /\ h[Body(h)[2]].fields["value"].k = "node"
\* the expression that used FEE
FeeUse(h) == h[h[Body(h)[2]].fields["value"].r]

\* C18: for the source that declares FEE with the initializer 2 + 3 and uses
\* FEE * 10, one full run of fold() leaves the literal 25 in place of the use.
C18_FoldsTo25 ==
    (pc = "done" /\ DeclaresFee(heap)) => (FeeUse(heap).cls = "Int" /\ FeeUse(heap).fields["value"] = IntV(25))

\* C18 (amended): the use is left as the literal 50, the value of (2 + 3) * 10.
C18_FoldsTo50 ==
    (pc = "done" /\ DeclaresFee(heap)) => (FeeUse(heap).cls = "Int" /\ FeeUse(heap).fields["value"] = IntV(50))

\* the first run of fold() on the FEE source has returned
C18_Witness == pc = "done" /\ foldNo = 1 /\ DeclaresFee(heap) /\ FeeUse(heap).cls = "Int"
\* ---- constants whose initializer is no literal
\* the declaration d has an initializer that is a literal scalar or sequence
LiteralInitializer(h, d) ==
    h[d].fields["value"].k = "node" /\ IsLiteralValue(h, h[d].fields["value"].r)
\* the references to the constant declared by d that the skip rules do not keep
References(h, d) ==
    {n \in InTree(h) : /\ h[n].cls = "Name"
                       /\ h[n].fields["id"] = Get(h, d, <<"target", "id">>)
                       /\ ~KeptByRule(h, n)}

BuiltinIds ==
    {"EMPTY_BYTES32", "ZERO_ADDRESS", "MAX_INT128", "MIN_INT128", "MAX_DECIMAL", "MIN_DECIMAL", "MAX_UINT256"}
\* the names of the tree that carry the identifier of a builtin constant
BuiltinNames(h) ==
    {n \in InTree(h) : h[n].cls = "Name" /\ \E id \in BuiltinIds : h[n].fields["id"] = StrV(id)}

RECURSIVE SameValues(_, _, _)
\* a and b are of the same variant and every field holds equal values: equal
\* nodes, lists of one length with pairwise equal elements, equal plain values
SameValues(h, a, b) ==
    /\ h[a].cls = h[b].cls
    /\ \A f \in DOMAIN h[a].fields :
          LET x == h[a].fields[f]
              y == h[b].fields[f]
          IN IF x.k = "node" /\ y.k = "node" THEN SameValues(h, x.r, y.r)
             ELSE IF x.k = "list" /\ y.k = "list"
                  THEN Len(x.s) = Len(y.s) /\ \A i \in 1..Len(x.s) : SameValues(h, x.s[i], y.s[i])
             ELSE x = y

\* C21: compare_nodes(a, b) is true exactly when a and b are of the same
\* variant and every declared field holds recursively equal values (sequences
\* of the same length, pairwise equal), whatever the node_ids and the source
\* positions.
C21_StructuralEquality ==
    pc = "compared" => (compared.equal <=> SameValues(heap, compared.left, compared.right))

\* the errors a user can cause: exceptions.py ZeroDivisionException, TypeMismatch
UserFacing == {"ZeroDivisionException", "TypeMismatch"}

\* a pass of the loop of fold() stands before the evaluation of a node
InPass == pc \in {"literal", "subscript", "call"} /\ todo # <<>>

\* what that evaluation gives
Outcome == IF pc = "call" THEN builtin_evaluate(heap, Head(todo)) ELSE evaluate(heap, Head(todo))

\* C22: error propagation. fold() is never left with UnfoldableNode; a node
\* whose evaluation raises UnfoldableNode is passed over and the pass goes on
\* with the tree untouched; a node whose evaluation raises
\* ZeroDivisionException or TypeMismatch ends fold() with that very exception
\* and without a substitution; a failed replace_in_tree ends fold() with
\* CompilerPanic; and once an exception has left fold() no step follows.
C22_ErrorPropagation ==
    /\ [](pc = "error" => exc \in UserFacing \cup {"CompilerPanic"})
    /\ [][InPass /\ Outcome.kind = "UnfoldableNode"
            => pc' = pc /\ heap' = heap /\ last' = last /\ todo' = Tail(todo)]_vars
    /\ [][InPass /\ Outcome.kind \in UserFacing
            => pc' = "error" /\ exc' = Outcome.kind /\ heap' = heap /\ last' = last]_vars
    /\ [][last'.n # last.n /\ ~last'.ok => pc' = "error" /\ exc' = "CompilerPanic"]_vars
    /\ [][pc # "error"]_vars

\* a TypeMismatch has left fold() after an earlier substitution of the pass
C22_Witness == pc = "error" /\ exc = "TypeMismatch" /\ last.ok /\ last.by = "replace_literal_ops"

\* the operation nodes of the tree that evaluate() would fold now
Foldable(h) == {n \in InTree(h) : h[n].cls \in LiteralOpTypes /\ IsOk(evaluate(h, n))}

\* C23: one call of replace_literal_ops folds nested literal operations
\* completely. While the pass runs, every node still on its list is in the
\* tree (no node is visited after it was detached), and when the pass has
\* visited its last node no operation node of the tree can be folded any
\* more: every expression built only from foldable operations has become one
\* literal, since its innermost operation would otherwise still fold.
C23_NestedFolded ==
    pc = "literal" =>
        /\ \A i \in 1..Len(todo) : todo[i] \in InTree(heap)
        /\ todo = <<>> => Foldable(heap) = {}

\* the pass has ended after folding `(1 + 2) * -3 < 4 and True`, five
\* operations deep, and `not (not True)`
C23_Witness ==
    /\ pc = "literal"
    /\ todo = <<>>
    /\ changed_nodes >= 7
    /\ last.by = "replace_literal_ops"
    /\ last.ok
    /\ heap[last.old].cls = "UnaryOp"
    /\ heap[last.new].cls = "NameConstant"

\* ---- arithmetic over operands of every kind
\* the evaluated expression is a BinOp
Arithmetic(h) == h[Subject(h)].cls = "BinOp"
\* its operands are an integer literal and a decimal literal
MixedKinds(h) == {Operand(h, "left").cls, Operand(h, "right").cls} = {"Int", "Decimal"}
\* its operands are two literals of one kind, integer or decimal
OneNumericKind(h) ==
    /\ Operand(h, "left").cls = Operand(h, "right").cls
    /\ Operand(h, "left").cls \in {"Int", "Decimal"}
\* it is an exponentiation of two decimal literals
DecimalPow(h) ==
    /\ ClsOf(h, h[Subject(h)].fields["op"]) = "Pow"
    /\ Operand(h, "left").cls = "Decimal" /\ Operand(h, "right").cls = "Decimal"

\* C24: arithmetic between an integer literal and a decimal literal is
\* rejected with TypeMismatch; a BinOp folds to a literal only when both
\* operands are literals of one kind and that kind is Int or Decimal;
\* exponentiation of decimals is rejected with TypeMismatch.
C24_MixedTypeMismatch ==
    [][pc = "evaluate" /\ Arithmetic(heap) =>
         /\ MixedKinds(heap) => evaluated'.kind = "TypeMismatch"
         /\ evaluated'.kind = "new" => OneNumericKind(heap)
         /\ DecimalPow(heap) => evaluated'.kind = "TypeMismatch"]_vars

\* C24 (amended): arithmetic between an integer literal and a decimal
\* literal signals unfoldable (UnfoldableNode) and makes no literal; the
\* rest as stated.
C24_MixedUnfoldable ==
    [][pc = "evaluate" /\ Arithmetic(heap) =>
         /\ MixedKinds(heap) => evaluated'.kind = "UnfoldableNode" /\ heap' = heap
         /\ evaluated'.kind = "new" => OneNumericKind(heap)
         /\ DecimalPow(heap) => evaluated'.kind = "TypeMismatch"]_vars

\* 2 + 2.00 has been evaluated: unfoldable
C24_Witness ==
    /\ pc = "evaluated" /\ Arithmetic(heap) /\ MixedKinds(heap)
    /\ Operand(heap, "left").cls = "Int"
    /\ ClsOf(heap, heap[Subject(heap)].fields["op"]) = "Add"
    /\ evaluated.kind = "UnfoldableNode"

\* C25: a failed construction leaves the child set of the parent as it
\* was: when get_node(ast_struct, parent) raises, parent has exactly the
\* children it had before the call.
C25_ChildSetKept ==
    [][pc = "construct" /\ ~last'.ok => heap'[last'.old].children = heap[last'.old].children]_vars

\* C26: depth grows along the fields. Every node that a node of the tree
\* holds in a field, alone or in a list, has a depth greater than the depth
\* of the node that holds it, in every state of a run of fold().
C26_DepthIncreasing ==
    \A n \in InTree(heap) : \A k \in FieldKids(heap, n) : heap[k].depth > heap[n].depth

\* ---- names inside the index of an assignment target
\* n lies inside an index expression: below an Index, at any depth
InsideIndex(h, n) == \E p \in InTree(h) : h[p].cls = "Index" /\ n \in ReachFrom(h, {p}, {p}) \ {p}

\* C27: the left-hand-side rule does not keep a name inside the index of a
\* subscripted assignment target. An iteration of replace_constant for a
\* user-defined constant with a literal value, on a reference that lies in
\* the target of an assignment and inside an index expression, whether it is
\* the whole index (a[LIMIT] = v) or part of it (a[LIMIT + 1] = v), replaces
\* the reference by a literal.
C27_IndexSubstituted ==
    [][pc = "user" /\ todo # <<>> /\ cur.repl # None /\ IsLiteralValue(heap, cur.repl) =>
         LET node == Head(todo)
         IN (/\ InTarget(heap, node) /\ InsideIndex(heap, node)
             /\ ~IsCallee(heap, node) /\ ~UnderAttribute(heap, node) /\ ~IsDictKey(heap, node))
            => /\ last'.n = last.n + 1
               /\ last'.old = node /\ last'.ok
               /\ node \notin InTree(heap')
               /\ IsLiteralValue(heap', last'.new)]_vars

\* ---- unary operations
\* the evaluated expression is `op operand`
Unary(h, op) == h[Subject(h)].cls = "UnaryOp" /\ ClsOf(h, h[Subject(h)].fields["op"]) = op
\* evaluation gave a literal of class cls with the plain value val
GaveLiteral(ev, h2, cls, val) ==
    ev.kind = "new" /\ h2[ev.ref].cls = cls /\ h2[ev.ref].fields["value"] = val

\* C28: `-x` folds exactly when x is an Int or Decimal literal, to a literal
\* of the same class with the negated value; `not x` folds exactly when x is
\* the boolean literal True or False, to the negated boolean literal; with
\* any other operand, the name-constant None included, evaluation raises
\* UnfoldableNode and makes no literal.
C28_UnaryOperands ==
    [][pc = "evaluate" /\ heap[Subject(heap)].cls = "UnaryOp" =>
         LET x == Operand(heap, "operand")
             v == x.fields["value"]
         IN IF Unary(heap, "USub") /\ x.cls \in {"Int", "Decimal"}
            THEN GaveLiteral(evaluated', heap', x.cls, [v EXCEPT !.n = -v.n])
            ELSE IF Unary(heap, "Not") /\ x.cls = "NameConstant" /\ v.ty = "bool"
            THEN GaveLiteral(evaluated', heap', "NameConstant", BoolV(v.n = 0))
            ELSE evaluated'.kind = "UnfoldableNode" /\ heap' = heap]_vars

\* C29: a replace_in_tree call that fails with CompilerPanic leaves the
\* tree as it was before the call: no field or list slot is rebound, and no
\* child set, parent or depth is changed.
C29_FailureAtomic ==
    [][last'.n = last.n + 1 /\ ~last'.ok /\ exc' = "CompilerPanic" => heap' = heap]_vars

\* C30: fold() raises no CompilerPanic on the trees of the front end. Every
\* replace_in_tree call a pass makes succeeds, the node it replaces is in
\* the tree when the call is made (no pass replaces a node that an earlier
\* substitution has detached), and fold() is never left with CompilerPanic.
C30_NoPanic ==
    /\ [](exc # "CompilerPanic")
    /\ [][last'.n # last.n => last'.ok /\ last'.old \in InTree(heap) /\ last'.old \notin InTree(heap')]_vars

\* replace_subscripts has folded `[X[0], [2][0]][1]` and `X[1]`: four
\* substitutions in one pass, the last one of a subscript whose list held
\* two subscripts folded before it
C30_Witness ==
    /\ pc = "subscript" /\ todo = <<>>
    /\ last.by = "replace_subscripts" /\ last.ok
    /\ changed_nodes >= 6
    /\ heap[last.new].fields["value"] = IntV(2)

====
